---- MODULE Spec2Model ----
(***************************************************************************)
(* Verification model of the prediction-market arbitrage bot:              *)
(*   - src/fees.js       venue fee models                                  *)
(*   - src/arbitrage.js  lexical similarity, greedy matcher, arbitrage     *)
(*   - src/unnamed/part_003, src/vector-matcher.js                         *)
(*                       entity extraction, hybrid and semantic matchers   *)
(*   - src/backend/...   refresh handler, opportunities handler, DB match  *)
(*                                                                         *)
(* Numbers.  JavaScript numbers are IEEE doubles.  The fee model, the       *)
(* arbitrage calculator, the lexical similarity score, the cosine of two   *)
(* embeddings and the scores of the hybrid, keyword and semantic matchers  *)
(* are computed in binary64 arithmetic, bit for bit: every product, sum,   *)
(* difference, quotient and square root is rounded to the nearest double   *)
(* as the engine does, with the signed zeros, the infinities and NaN, so   *)
(* that Math.ceil of a cent amount and a comparison with a threshold see   *)
(* the double the code sees.  A decimal literal such as 0.07 is the double *)
(* nearest to it.  The scores the vector index returns for stored vectors  *)
(* are given decimal scores and are kept as exact rationals [n, d] (d > 0, *)
(* lowest terms).                                                          *)
(*                                                                         *)
(* Specifications.  Each part of the program has its own specification     *)
(* over the shared variables; the variables of the other parts rest:       *)
(*   SpecArb    one call of checkArbitrageOpportunity or calculateArbitrage*)
(*   SpecSim    one call of calculateSimilarity                            *)
(*   SpecMatch  one pass of findMatchingMarkets, an outer-loop iteration   *)
(*              per step                                                   *)
(*   SpecHybrid one call of the hybrid findMatches (a step per await and   *)
(*              outer-loop iteration), of its keyword fallback, or of the  *)
(*              matcher of vector-matcher.js (a step per await)            *)
(*   SpecMatchers  SpecMatch or SpecHybrid                                 *)
(*   SpecDb     one refresh and concurrent opportunity requests, a step    *)
(*              per await                                                  *)
(*   SpecSystem refreshes whose handlers may overlap, with the stats and   *)
(*              health routes answered in between                          *)
(*   SpecDbMatch  concurrent calls of findMatchesFromDb over an index that *)
(*              does not change                                            *)
(*   SpecEmbedder  concurrent callers of initEmbedder                      *)
(***************************************************************************)
EXTENDS Integers, Sequences, FiniteSets, TLC

VARIABLES
    (* arbitrage calculator (src/arbitrage.js, src/fees.js) *)
    arbPc,          \* "ready" | "checked" | "calculated"
    arbIn,          \* inputs of the call under evaluation
    arbOut,         \* value returned by the call
    (* lexical similarity (src/arbitrage.js) *)
    simPc,          \* "off" | "ready" | "done"
    simIn,          \* [str1, str2]: the two titles
    simOut,         \* value returned by calculateSimilarity
    (* greedy matcher findMatchingMarkets (src/arbitrage.js) *)
    matchPc,        \* "off" | "loop" | "done"
    matchIn,        \* [kalshiMarkets, polymarketMarkets, minSimilarity]
    matchI,         \* position of the outer loop in kalshiMarkets
    matches,        \* pairs pushed so far
    usedPolyMarkets,\* ids claimed so far
    matchRuns,      \* the lists returned by the passes finished so far
    (* hybrid and semantic matchers (src/unnamed/part_003, src/vector-matcher.js) *)
    hybrid,         \* the matching call under way and its locals
    (* backend: vector indexes, metadata file, request handlers *)
    dbIndex,        \* [kalshi, polymarket]: the items of each vector index
    dbMeta,         \* contents of metadata.json, Null while the file is absent
    refresh,        \* the POST /api/system/refresh handlers and their locals
    requests,       \* the GET /api/opportunities handlers and their locals
    probe,          \* the answers of GET /api/system/stats and /health so far
    (* embedding model loader (initEmbedder) *)
    loader          \* the module variables of the loader and its callers

arbVars == <<arbPc, arbIn, arbOut>>

simVars == <<simPc, simIn, simOut>>

matchVars == <<matchPc, matchIn, matchI, matches, usedPolyMarkets, matchRuns>>

hybVars == <<hybrid>>

dbVars == <<dbIndex, dbMeta, refresh, requests>>

probeVars == <<probe>>

embVars == <<loader>>

vars == <<arbPc, arbIn, arbOut, simPc, simIn, simOut, matchPc, matchIn, matchI, matches, usedPolyMarkets, matchRuns, hybrid, dbIndex, dbMeta, refresh, requests, probe, loader>>

\* the variables of the other parts, which a step of one part leaves alone
notArb == <<simVars, matchVars, hybVars, dbVars, probeVars, embVars>>

notSim == <<arbVars, matchVars, hybVars, dbVars, probeVars, embVars>>

notMatch == <<arbVars, simVars, hybVars, dbVars, probeVars, embVars>>

notHyb == <<arbVars, simVars, matchVars, dbVars, probeVars, embVars>>

notDb == <<arbVars, simVars, matchVars, hybVars, probeVars, embVars>>

notProbe == <<arbVars, simVars, matchVars, hybVars, dbVars, embVars>>

notEmb == <<arbVars, simVars, matchVars, hybVars, dbVars, probeVars>>

-----------------------------------------------------------------------------
(* Exact rational arithmetic *)

RECURSIVE GCD(_, _)
GCD(a, b) == IF b = 0 THEN a ELSE GCD(b, a % b)

Abs(x) == IF x < 0 THEN -x ELSE x

\* n/d in lowest terms with a positive denominator (d # 0)
Rat(n, d) ==
    LET g == GCD(Abs(n), Abs(d))
        s == IF d < 0 THEN -1 ELSE 1
    IN  [n |-> s * (n \div g), d |-> s * (d \div g)]

RInt(k) == [n |-> k, d |-> 1]

\* result of 0/0, Infinity * 0, Infinity - Infinity, or any operation on
\* such a value
NaN == [n |-> 0, d |-> 0]

IsNaN(a) == a.d = 0 /\ a.n = 0

\* result of x/0 for x > 0
Infinity == [n |-> 1, d |-> 0]

\* result of x/0 for x < 0
NegInfinity == [n |-> -1, d |-> 0]

IsInf(a) == a.d = 0 /\ a.n # 0

\* -1, 0 or 1
Sign(a) == IF a.n < 0 THEN -1 ELSE IF a.n > 0 THEN 1 ELSE 0

InfOfSign(s) == IF s < 0 THEN NegInfinity ELSE Infinity

RAdd(a, b) ==
    IF IsNaN(a) \/ IsNaN(b) THEN NaN
    ELSE IF IsInf(a) /\ IsInf(b) THEN (IF a = b THEN a ELSE NaN)
    ELSE IF IsInf(a) THEN a
    ELSE IF IsInf(b) THEN b
    ELSE LET g == GCD(a.d, b.d)
         IN  Rat(a.n * (b.d \div g) + b.n * (a.d \div g), (a.d \div g) * b.d)

RNeg(a) == [n |-> -a.n, d |-> a.d]

RSub(a, b) == RAdd(a, RNeg(b))

\* cross-cancel before multiplying to keep the integers small
RMul(a, b) ==
    IF IsNaN(a) \/ IsNaN(b) THEN NaN
    ELSE IF IsInf(a) \/ IsInf(b)
    THEN (IF Sign(a) * Sign(b) = 0 THEN NaN
          ELSE InfOfSign(Sign(a) * Sign(b)))
    ELSE LET g1 == GCD(Abs(a.n), b.d)
             g2 == GCD(Abs(b.n), a.d)
         IN  [n |-> (a.n \div g1) * (b.n \div g2),
              d |-> (a.d \div g2) * (b.d \div g1)]

\* a / b: x/0 is Infinity with the sign of x, 0/0 and Infinity/Infinity
\* are NaN, x/Infinity is 0
RDiv(a, b) ==
    IF IsNaN(a) \/ IsNaN(b) THEN NaN
    ELSE IF IsInf(b) THEN (IF IsInf(a) THEN NaN ELSE RInt(0))
    ELSE IF b.n = 0 THEN (IF a.n = 0 THEN NaN ELSE InfOfSign(Sign(a)))
    ELSE IF IsInf(a) THEN InfOfSign(Sign(a) * Sign(b))
    ELSE RMul(a, Rat(b.d, b.n))

\* an/ad < bn/bd for positive denominators, by comparing the integer parts
\* and then the remainders, so that no product is formed
RECURSIVE FracLess(_, _, _, _)
FracLess(an, ad, bn, bd) ==
    IF an \div ad # bn \div bd THEN an \div ad < bn \div bd
    ELSE IF bn % bd = 0 THEN FALSE
    ELSE IF an % ad = 0 THEN TRUE
    ELSE FracLess(bd, bn % bd, ad, an % ad)

\* comparisons are false on NaN, as in JavaScript
RLess(a, b) ==
    /\ ~IsNaN(a)
    /\ ~IsNaN(b)
    /\ IF IsInf(a) \/ IsInf(b)
       THEN a # b /\ (a = NegInfinity \/ b = Infinity)
       ELSE FracLess(a.n, a.d, b.n, b.d)

RLeq(a, b) ==
    /\ ~IsNaN(a)
    /\ ~IsNaN(b)
    /\ ~RLess(b, a)

RIsInt(a) == a.d = 1

\* Math.ceil of a rational
RCeil(a) ==
    IF a.n % a.d = 0 THEN a.n \div a.d ELSE (a.n \div a.d) + 1

RMax(a, b) == IF RLess(a, b) THEN b ELSE a

\* a price given in whole cents, as a number in [0,1]
Cents(p) == Rat(p, 100)

-----------------------------------------------------------------------------
(* IEEE 754 binary64 arithmetic, as the JavaScript engine computes every    *)
(* number of the calculator and of the similarity score.  A whole number of *)
(* any size is a sequence of limbs in base 2^13, least significant first.   *)
(* A double is [kind, sign, mant, exp]: kind "num" is the finite number     *)
(* sign * mant * 2^exp, with a mantissa of exactly 53 bits, or of fewer     *)
(* bits at the exponent -1074 (subnormal), or empty (zero, +0 or -0);       *)
(* kind "inf" is Infinity with that sign and kind "nan" is NaN.             *)

LimbBits == 13

LimbBase == 2 ^ LimbBits

MantBits == 53

\* drop the high limbs that are zero
RECURSIVE BTrim(_)
BTrim(a) ==
    IF a # <<>> /\ a[Len(a)] = 0 THEN BTrim(SubSeq(a, 1, Len(a) - 1)) ELSE a

\* limbs of the sequence of column sums `cols`, carrying from column i on
RECURSIVE BCarry(_, _, _)
BCarry(cols, i, carry) ==
    IF i > Len(cols)
    THEN (IF carry = 0 THEN <<>> ELSE BCarry(<<carry>>, 1, 0))
    ELSE <<(cols[i] + carry) % LimbBase>>
             \o BCarry(cols, i + 1, (cols[i] + carry) \div LimbBase)

BLimb(a, i) == IF i >= 1 /\ i <= Len(a) THEN a[i] ELSE 0

BMax(x, y) == IF x < y THEN y ELSE x

BAdd(a, b) ==
    BTrim(BCarry([i \in 1..BMax(Len(a), Len(b)) |-> BLimb(a, i) + BLimb(b, i)],
                 1, 0))

\* sum of a[i] * b[k + 1 - i] for i from `i` up
RECURSIVE BColumn(_, _, _, _)
BColumn(a, b, k, i) ==
    IF i > Len(a) \/ i > k THEN 0
    ELSE a[i] * BLimb(b, k + 1 - i) + BColumn(a, b, k, i + 1)

BMul(a, b) ==
    IF a = <<>> \/ b = <<>> THEN <<>>
    ELSE BTrim(BCarry([k \in 1..(Len(a) + Len(b) - 1) |-> BColumn(a, b, k, 1)],
                      1, 0))

\* number of bits of a limb
RECURSIVE LimbLen(_)
LimbLen(x) == IF x = 0 THEN 0 ELSE 1 + LimbLen(x \div 2)

\* number of bits of a trimmed number
BBitLen(a) ==
    IF a = <<>> THEN 0 ELSE (Len(a) - 1) * LimbBits + LimbLen(a[Len(a)])

\* a * 2^t
BShl(a, t) ==
    IF a = <<>> THEN <<>>
    ELSE LET whole == t \div LimbBits
             part == 2 ^ (t % LimbBits)
         IN  BTrim(BCarry([i \in 1..(Len(a) + whole) |->
                               IF i <= whole THEN 0 ELSE a[i - whole] * part],
                          1, 0))

\* a \div 2^t
BShr(a, t) ==
    LET whole == t \div LimbBits
        part == 2 ^ (t % LimbBits)
        rest == LimbBase \div part
    IN  IF whole >= Len(a) THEN <<>>
        ELSE BTrim([i \in 1..(Len(a) - whole) |->
                       (a[i + whole] \div part)
                           + (BLimb(a, i + whole + 1) % part) * rest])

\* bit i of a, the lowest bit being bit 0
BBit(a, i) == (BLimb(a, (i \div LimbBits) + 1) \div (2 ^ (i % LimbBits))) % 2

\* a % 2^t = 0
BLowZero(a, t) ==
    /\ \A i \in 1..(t \div LimbBits) : BLimb(a, i) = 0
    /\ BLimb(a, (t \div LimbBits) + 1) % (2 ^ (t % LimbBits)) = 0

\* a < b for trimmed numbers, comparing from limb i down
RECURSIVE BLessFrom(_, _, _)
BLessFrom(a, b, i) ==
    IF i = 0 THEN FALSE
    ELSE IF a[i] # b[i] THEN a[i] < b[i]
    ELSE BLessFrom(a, b, i - 1)

BLess(a, b) ==
    IF Len(a) # Len(b) THEN Len(a) < Len(b) ELSE BLessFrom(a, b, Len(a))

\* a - b for a >= b, borrowing from limb i on
RECURSIVE BBorrow(_, _, _, _)
BBorrow(a, b, i, borrow) ==
    IF i > Len(a) THEN <<>>
    ELSE LET d == a[i] - BLimb(b, i) - borrow
         IN  <<IF d < 0 THEN d + LimbBase ELSE d>>
                 \o BBorrow(a, b, i + 1, IF d < 0 THEN 1 ELSE 0)

BSub(a, b) == BTrim(BBorrow(a, b, 1, 0))

\* exponent of the smallest subnormal double, 2^-1074
MinExp == -1074

\* largest exponent of a 53-bit mantissa: doubles are below 2^1024
MaxExp == 971

DNaN == [kind |-> "nan", sign |-> 1, mant |-> <<>>, exp |-> 0]

DInf(s) == [kind |-> "inf", sign |-> s, mant |-> <<>>, exp |-> 0]

\* +0 or -0
DSignedZero(s) == [kind |-> "num", sign |-> s, mant |-> <<>>, exp |-> 0]

DZero == DSignedZero(1)

IsDNaN(x) == x.kind = "nan"

IsDInf(x) == x.kind = "inf"

IsDZero(x) == x.kind = "num" /\ x.mant = <<>>

\* the double s * m * 2^x of a mantissa that fits; beyond the largest
\* double it is an infinity
DPack(s, m, x) ==
    IF m = <<>> THEN DSignedZero(s)
    ELSE IF x > MaxExp THEN DInf(s)
    ELSE [kind |-> "num", sign |-> s, mant |-> m, exp |-> x]

\* the double s * r * 2^x of a mantissa that rounding up may have brought
\* to 54 bits
DPackRounded(s, r, x) ==
    IF BBitLen(r) > MantBits THEN DPack(s, BShr(r, 1), x + 1)
    ELSE DPack(s, r, x)

\* s * a * 2^e without the t > 0 low bits of a, q being the bits kept: up
\* when the bits dropped are more than half a unit of q, or half a unit and
\* q is odd
DRoundDrop(s, a, e, t, q) ==
    DPackRounded(s,
                 IF /\ BBit(a, t - 1) = 1
                    /\ (~BLowZero(a, t - 1) \/ BBit(q, 0) = 1)
                 THEN BAdd(q, <<1>>)
                 ELSE q,
                 e + t)

\* s * a * 2^e brought to the exponent e + t
DRoundAt(s, a, e, t) ==
    IF t <= 0 THEN DPack(s, BShl(a, -t), e + t)
    ELSE DRoundDrop(s, a, e, t, BShr(a, t))

\* the double nearest to s * a * 2^e, ties to the even mantissa; below
\* 2^-1022 the doubles are the multiples of 2^-1074
DRound(s, a, e) ==
    IF a = <<>> THEN DSignedZero(s)
    ELSE DRoundAt(s, a, e, BMax(BBitLen(a) - MantBits, MinExp - e))

\* the limbs of a whole number 0 <= k < 2^31
BOfInt(k) ==
    BTrim(<<k % LimbBase, (k \div LimbBase) % LimbBase,
            k \div (LimbBase * LimbBase)>>)

\* the double s * a of a whole number a below 2^53 (exact)
DExact(s, a) == DPack(s, BShl(a, MantBits - BBitLen(a)), BBitLen(a) - MantBits)

\* the double of a whole number (exact)
DOfInt(k) == DExact(IF k < 0 THEN -1 ELSE 1, BOfInt(Abs(k)))

Reversed(s) == [i \in 1..Len(s) |-> s[Len(s) + 1 - i]]

DNeg(x) == [x EXCEPT !.sign = -x.sign]

DMul(x, y) ==
    IF IsDNaN(x) \/ IsDNaN(y) THEN DNaN
    ELSE IF IsDInf(x) \/ IsDInf(y)
    THEN (IF IsDZero(x) \/ IsDZero(y) THEN DNaN ELSE DInf(x.sign * y.sign))
    ELSE DRound(x.sign * y.sign, BMul(x.mant, y.mant), x.exp + y.exp)

\* beyond this gap of exponents the smaller term is less than half a unit
\* in the last place of the larger
DAddReach == 64

\* sum of hi and lo, whose magnitudes are a and b units of 2^lo.exp
DAddAligned(hi, lo, a, b) ==
    IF hi.sign # lo.sign /\ a = b THEN DZero
    ELSE DRound(IF hi.sign # lo.sign /\ BLess(a, b) THEN lo.sign ELSE hi.sign,
                IF hi.sign = lo.sign THEN BAdd(a, b)
                ELSE IF BLess(a, b) THEN BSub(b, a)
                ELSE BSub(a, b),
                lo.exp)

\* sum of two finite doubles that are not zero, hi.exp >= lo.exp
DAddOrdered(hi, lo) ==
    IF hi.exp - lo.exp > DAddReach THEN hi
    ELSE DAddAligned(hi, lo, BShl(hi.mant, hi.exp - lo.exp), lo.mant)

\* sum of two finite doubles that are not zero
DAddFinite(x, y) ==
    DAddOrdered(IF x.exp >= y.exp THEN x ELSE y,
                IF x.exp >= y.exp THEN y ELSE x)

DAdd(x, y) ==
    IF IsDNaN(x) \/ IsDNaN(y) THEN DNaN
    ELSE IF IsDInf(x) /\ IsDInf(y) THEN (IF x.sign = y.sign THEN x ELSE DNaN)
    ELSE IF IsDInf(x) THEN x
    ELSE IF IsDInf(y) THEN y
    ELSE IF IsDZero(x) /\ IsDZero(y)
    THEN DSignedZero(IF x.sign = -1 /\ y.sign = -1 THEN -1 ELSE 1)
    ELSE IF IsDZero(x) THEN y
    ELSE IF IsDZero(y) THEN x
    ELSE DAddFinite(x, y)

DSub(x, y) == DAdd(x, DNeg(y))

\* the digit of the quotient r/d in base 2^13, from an estimate that is not
\* below it
RECURSIVE QuotientDigit(_, _, _)
QuotientDigit(r, d, estimate) ==
    IF BLess(r, BMul(d, <<estimate>>))
    THEN QuotientDigit(r, d, estimate - 1)
    ELSE estimate

\* the quotient digit of r/d estimated from the two highest limbs of r and
\* the highest limb of d, for r < d * 2^13 and a d whose highest limb is full
DigitEstimate(r, d) ==
    LET top == (BLimb(r, Len(d) + 1) * LimbBase + BLimb(r, Len(d))) \div d[Len(d)]
    IN  IF top < LimbBase THEN top ELSE LimbBase - 1

\* `count` limbs of the quotient r/d, most significant first, and a last
\* limb that is 1 when a remainder is left
RECURSIVE LongQuotient(_, _, _)
LongQuotient(r, d, count) ==
    IF count = 0 THEN <<IF r = <<>> THEN 0 ELSE 1>>
    ELSE LET q == QuotientDigit(r, d, DigitEstimate(r, d))
         IN  <<q>> \o LongQuotient(BShl(BSub(r, BMul(d, <<q>>)), LimbBits),
                                   d, count - 1)

\* limbs of a mantissa brought to full limbs
FullLimbs == 5

\* quotient of the mantissas of x and y shifted left by sx and sy bits, as
\* a whole number `mant` of units 2^exp with a sticky last limb
DDivShifted(x, y, sx, sy) ==
    [mant |-> BTrim(Reversed(LongQuotient(BShl(x.mant, sx), BShl(y.mant, sy),
                                          FullLimbs + 1))),
     exp |-> x.exp - y.exp - sx + sy - LimbBits * (FullLimbs + 1)]

\* quotient of two mantissas of 53 bits or fewer: both are brought to 65
\* bits, so that their quotient lies between 1/2 and 2, and divided to 65
\* binary places
DDivLong(x, y) ==
    DDivShifted(x, y, FullLimbs * LimbBits - BBitLen(x.mant),
                FullLimbs * LimbBits - BBitLen(y.mant))

\* number of zero bits at the low end of a limb that is not zero
RECURSIVE LimbZeros(_)
LimbZeros(x) == IF x % 2 = 1 THEN 0 ELSE 1 + LimbZeros(x \div 2)

\* number of zero bits at the low end of a number that is not zero
RECURSIVE TrailingZeros(_, _)
TrailingZeros(a, i) ==
    IF a[i] = 0 THEN LimbBits + TrailingZeros(a, i + 1) ELSE LimbZeros(a[i])

\* bits of a divisor that one machine integer division per limb can take
ShortBits == 18

\* the limbs of the quotient a/d from limb i of a down, most significant
\* first, for a whole number d below 2^18 and a remainder r so far, and a
\* last limb that is 1 when a remainder is left
RECURSIVE ShortQuotient(_, _, _, _)
ShortQuotient(a, i, r, d) ==
    IF i = 0 THEN <<IF r = 0 THEN 0 ELSE 1>>
    ELSE <<(r * LimbBase + a[i]) \div d>>
             \o ShortQuotient(a, i - 1, (r * LimbBase + a[i]) % d, d)

\* quotient of a 53-bit mantissa by a mantissa that is d * 2^z for a whole
\* number d below 2^18, as the divisors 100 and the denominators of the
\* decimal literals are: the dividend is extended by 26 binary places
DDivShort(x, y, z, d) ==
    [mant |-> BTrim(Reversed(ShortQuotient(<<0, 0>> \o x.mant,
                                           Len(x.mant) + 2, 0,
                                           BLimb(d, 1) + BLimb(d, 2) * LimbBase))),
     exp |-> x.exp - y.exp - z - 3 * LimbBits]

\* quotient of the mantissas, y.mant having z zero bits at its low end
DDivMantissas(x, y, z) ==
    IF BBitLen(x.mant) = MantBits /\ BBitLen(y.mant) - z <= ShortBits
    THEN DDivShort(x, y, z, BShr(y.mant, z))
    ELSE DDivLong(x, y)

\* the double nearest to the quotient q with sign s
DRoundQuotient(s, q) == DRound(s, q.mant, q.exp)

\* quotient of two finite doubles that are not zero
DDivFinite(x, y) ==
    DRoundQuotient(x.sign * y.sign,
                   DDivMantissas(x, y, TrailingZeros(y.mant, 1)))

DDiv(x, y) ==
    IF IsDNaN(x) \/ IsDNaN(y) THEN DNaN
    ELSE IF IsDInf(x) THEN (IF IsDInf(y) THEN DNaN ELSE DInf(x.sign * y.sign))
    ELSE IF IsDInf(y) THEN DSignedZero(x.sign * y.sign)
    ELSE IF IsDZero(y)
    THEN (IF IsDZero(x) THEN DNaN ELSE DInf(x.sign * y.sign))
    ELSE IF IsDZero(x) THEN DSignedZero(x.sign * y.sign)
    ELSE DDivFinite(x, y)

\* x < y for finite doubles above zero
DMagLess(x, y) ==
    IF x.exp + BBitLen(x.mant) # y.exp + BBitLen(y.mant)
    THEN x.exp + BBitLen(x.mant) < y.exp + BBitLen(y.mant)
    ELSE BLess(x.mant, y.mant)

\* x < y for doubles above zero, Infinity included
DPosLess(x, y) ==
    IF IsDInf(x) THEN FALSE
    ELSE IF IsDInf(y) THEN TRUE
    ELSE DMagLess(x, y)

\* -1, 0 or 1; both zeros have signum 0
DSignum(x) == IF IsDZero(x) THEN 0 ELSE x.sign

\* comparisons are false on NaN, and -0 equals +0
DLess(x, y) ==
    /\ ~IsDNaN(x)
    /\ ~IsDNaN(y)
    /\ IF DSignum(x) # DSignum(y) THEN DSignum(x) < DSignum(y)
       ELSE IF DSignum(x) = 0 THEN FALSE
       ELSE IF DSignum(x) = 1 THEN DPosLess(x, y)
       ELSE DPosLess(y, x)

DEq(x, y) ==
    /\ ~IsDNaN(x)
    /\ ~IsDNaN(y)
    /\ (x = y \/ (IsDZero(x) /\ IsDZero(y)))

DLeq(x, y) == DLess(x, y) \/ DEq(x, y)

\* Math.max of two numbers: NaN when either is, and +0 above -0
DMax(x, y) ==
    IF IsDNaN(x) \/ IsDNaN(y) THEN DNaN
    ELSE IF DLess(x, y) THEN y
    ELSE IF DLess(y, x) THEN x
    ELSE IF x.sign = -1 THEN y
    ELSE x

\* Math.ceil
DCeil(x) ==
    IF x.kind # "num" \/ x.mant = <<>> \/ x.exp >= 0 THEN x
    ELSE DExact(x.sign,
                IF x.sign = 1 /\ ~BLowZero(x.mant, -x.exp)
                THEN BAdd(BShr(x.mant, -x.exp), <<1>>)
                ELSE BShr(x.mant, -x.exp))

\* the value of a number in a condition: NaN and both zeros are false
DTruthy(x) == ~IsDNaN(x) /\ ~IsDZero(x)

\* the double nearest to a rational, as a numeric literal is read
DOfRat(a) == DDiv(DOfInt(a.n), DOfInt(a.d))

\* the largest whole number r + k with (r + k)^2 <= t, k below twice `bit`,
\* for a t below 2^26
RECURSIVE IntRoot(_, _, _)
IntRoot(t, r, bit) ==
    IF bit = 0 THEN r
    ELSE IF (r + bit) * (r + bit) <= t THEN IntRoot(t, r + bit, bit \div 2)
    ELSE IntRoot(t, r, bit \div 2)

\* the largest digit d, not above the estimate, with (r2 + d) * d <= rem
RECURSIVE RootDigit(_, _, _)
RootDigit(rem, r2, estimate) ==
    IF BLess(rem, BMul(BAdd(r2, <<estimate>>), <<estimate>>))
    THEN RootDigit(rem, r2, estimate - 1)
    ELSE estimate

\* a digit not below the next digit of the root: half the quotient of x by
\* the root so far, from the highest limbs of x and the highest of the root
RootEstimate(x, root) ==
    LET q == (((BLimb(x, Len(root) + 2) * LimbBase
                   + BLimb(x, Len(root) + 1)) * LimbBase
                  + BLimb(x, Len(root))) \div root[Len(root)]) \div 2
    IN  IF q < LimbBase THEN q ELSE LimbBase - 1

\* the root extended by the digit d, and what is left of `brought`
RootExtended(root, r2, brought, d) ==
    [root |-> <<d>> \o root,
     rem |-> BSub(brought, BMul(BAdd(r2, <<d>>), <<d>>))]

\* the next digit of the root, r2 being twice the root so far times 2^13
RootBrought(root, r2, brought) ==
    RootExtended(root, r2, brought,
                 RootDigit(brought, r2,
                           RootEstimate(SubSeq(brought, 2, Len(brought)),
                                        root)))

\* one step of the long square root: two more limbs, lo and hi, are brought
\* down to the remainder
RootStep(st, lo, hi) ==
    RootBrought(st.root, <<0>> \o BAdd(st.root, st.root),
                BTrim(<<lo, hi>> \o st.rem))

\* the long square root of m from limb i down, two limbs a step
RECURSIVE LongRoot(_, _, _)
LongRoot(m, i, st) ==
    IF i < 2 THEN st ELSE LongRoot(m, i - 2, RootStep(st, m[i - 1], m[i]))

\* root d of the two highest limbs t, and what is left of them
RootStart(t, d) == [root |-> <<d>>, rem |-> BOfInt(t - d * d)]

\* the double nearest to the root whose whole part is st.root, in units of
\* 2^half, with a last bit that is 1 when a remainder is left
DSqrtRounded(st, half) ==
    DRound(1, BAdd(BShl(st.root, 1), <<IF st.rem = <<>> THEN 0 ELSE 1>>),
           half - 1)

\* root of m * 4^half for a whole number m of ten limbs, the highest of
\* them at least 2^11
DSqrtLimbs(m, half) ==
    DSqrtRounded(
        LongRoot(m, Len(m) - 2,
                 RootStart(m[Len(m)] * LimbBase + m[Len(m) - 1],
                           IntRoot(m[Len(m)] * LimbBase + m[Len(m) - 1],
                                   0, LimbBase \div 2))),
        half)

\* root of x with the mantissa shifted left by s bits, x.exp - s being even
DSqrtShifted(x, s) == DSqrtLimbs(BShl(x.mant, s), (x.exp - s) \div 2)

\* the mantissa is brought to 129 or 130 bits, so that the root has 65
DSqrtFinite(x, s) ==
    DSqrtShifted(x, IF (x.exp - s) % 2 = 0 THEN s ELSE s - 1)

\* Math.sqrt: the double nearest to the square root
DSqrt(x) ==
    IF IsDNaN(x) THEN DNaN
    ELSE IF IsDZero(x) THEN x
    ELSE IF x.sign = -1 THEN DNaN
    ELSE IF IsDInf(x) THEN x
    ELSE DSqrtFinite(x, 2 * FullLimbs * LimbBits - BBitLen(x.mant))

-----------------------------------------------------------------------------
(* Fee model: src/fees.js *)

\* CONFIG.fees.kalshi.takerFeeRate
takerFeeRate == DOfRat(Rat(7, 100))

\* CONFIG.fees.kalshi.makerFeeRate
makerFeeRate == DOfRat(Rat(175, 10000))

\* CONFIG.fees.polymarket.feeRate
polymarketFeeRate == DOfRat(Rat(2, 100))

\* Math.ceil(fee * 100) / 100
CeilCents(fee) == DDiv(DCeil(DMul(fee, DOfInt(100))), DOfInt(100))

calculateKalshiTakerFee(contracts, price) ==
    LET fee == DMul(DMul(DMul(takerFeeRate, contracts), price),
                    DSub(DOfInt(1), price))
    IN  CeilCents(fee)

calculateKalshiMakerFee(contracts, price) ==
    LET fee == DMul(DMul(DMul(makerFeeRate, contracts), price),
                    DSub(DOfInt(1), price))
    IN  CeilCents(fee)

\* the slip of rounding the Polymarket fee up to the cent as Kalshi's is
calculatePolymarketFee_ceilCents(contracts, price) ==
    LET cost == DMul(contracts, price)
        potentialProfit == DSub(contracts, cost)
        fee == DMul(polymarketFeeRate, potentialProfit)
    IN  DMax(DZero, CeilCents(fee))

calculatePolymarketFee(contracts, price) ==
    LET cost == DMul(contracts, price)
        potentialProfit == DSub(contracts, cost)
        fee == DMul(polymarketFeeRate, potentialProfit)
    IN  DMax(DZero, fee)

\* the object literal returned by both cost functions
CostRecord(contracts, contractCost, fee) ==
    [contractCost |-> contractCost,
     fee |-> fee,
     totalCost |-> DAdd(contractCost, fee),
     maxPayout |-> contracts]

calculateKalshiCost(contracts, price, isMaker) ==
    CostRecord(contracts, DMul(contracts, price),
               IF isMaker
               THEN calculateKalshiMakerFee(contracts, price)
               ELSE calculateKalshiTakerFee(contracts, price))

calculatePolymarketCost(contracts, price) ==
    CostRecord(contracts, DMul(contracts, price),
               calculatePolymarketFee(contracts, price))

\* the object literal returned by calculateArbitrageProfit, with
\* profitPercent = (netProfit / totalCost) * 100
ProfitRecord(side1, side2, totalCost, guaranteedPayout, netProfit) ==
    [totalCost |-> totalCost,
     guaranteedPayout |-> guaranteedPayout,
     netProfit |-> netProfit,
     profitPercent |-> DMul(DDiv(netProfit, totalCost), DOfInt(100)),
     side1Cost |-> side1.totalCost,
     side2Cost |-> side2.totalCost,
     side1Fee |-> side1.fee,
     side2Fee |-> side2.fee]

\* netProfit = guaranteedPayout - totalCost
ProfitOver(side1, side2, totalCost, guaranteedPayout) ==
    ProfitRecord(side1, side2, totalCost, guaranteedPayout,
                 DSub(guaranteedPayout, totalCost))

\* the slip of counting the payout of both sides
calculateArbitrageProfit_bothPay(side1, side2) ==
    ProfitOver(side1, side2, DAdd(side1.totalCost, side2.totalCost),
               DAdd(side1.maxPayout, side2.maxPayout))

calculateArbitrageProfit(side1, side2) ==
    ProfitOver(side1, side2, DAdd(side1.totalCost, side2.totalCost),
               side1.maxPayout)

-----------------------------------------------------------------------------
(* Arbitrage calculator: src/arbitrage.js *)

\* the JavaScript null returned when a combination is not profitable
Null == [isNull |-> TRUE]

\* cost of `contracts` at `price` on `platform`
PlatformCost(platform, contracts, price) ==
    IF platform = "kalshi"
    THEN calculateKalshiCost(contracts, price, FALSE)
    ELSE calculatePolymarketCost(contracts, price)

\* the object literal returned by both profitable branches
Opportunity(platform1, side1, price1, platform2, side2, price2, contracts, c1, c2, profit) ==
    [platform1 |-> platform1, side1 |-> side1, price1 |-> price1,
     contracts1 |-> contracts, cost1 |-> c1,
     platform2 |-> platform2, side2 |-> side2, price2 |-> price2,
     contracts2 |-> contracts, cost2 |-> c2,
     totalCost |-> profit.totalCost,
     guaranteedPayout |-> profit.guaranteedPayout,
     netProfit |-> profit.netProfit,
     profitPercent |-> profit.profitPercent,
     side1Cost |-> profit.side1Cost, side2Cost |-> profit.side2Cost,
     side1Fee |-> profit.side1Fee, side2Fee |-> profit.side2Fee]

\* both cost records at one contract count (lines 205-211 and 219-225)
CostPass(platform1, price1, platform2, price2, contracts) ==
    [contracts |-> contracts,
     cost1 |-> PlatformCost(platform1, contracts, price1),
     cost2 |-> PlatformCost(platform2, contracts, price2)]

\* const totalCost = cost1.totalCost + cost2.totalCost
PassTotalCost(pass) == DAdd(pass.cost1.totalCost, pass.cost2.totalCost)

\* what the profit test and the returned object read: the contract count,
\* the two cost records and the profit analysis over them
Evaluated(pass, rescaled) ==
    [contracts |-> pass.contracts,
     cost1 |-> pass.cost1,
     cost2 |-> pass.cost2,
     profit |-> calculateArbitrageProfit(pass.cost1, pass.cost2),
     rescaled |-> rescaled]

\* contracts = contracts * (investment / totalCost)
RescaledContracts(first, investment) ==
    DMul(first.contracts, DDiv(investment, PassTotalCost(first)))

\* the slip of keeping the first-pass cost records after the rescale
RescaleIfOver_stale(platform1, price1, platform2, price2, investment, first) ==
    IF DLess(investment, PassTotalCost(first))
    THEN LET pass == CostPass(platform1, price1, platform2, price2,
                              RescaledContracts(first, investment))
         IN  [contracts |-> pass.contracts,
              cost1 |-> first.cost1,
              cost2 |-> first.cost2,
              profit |-> calculateArbitrageProfit(pass.cost1, pass.cost2),
              rescaled |-> TRUE]
    ELSE Evaluated(first, FALSE)

\* lines 213-227 and 245-246: one proportional rescale when the first pass
\* costs more than the investment
RescaleIfOver(platform1, price1, platform2, price2, investment, first) ==
    IF DLess(investment, PassTotalCost(first))
    THEN Evaluated(CostPass(platform1, price1, platform2, price2,
                            RescaledContracts(first, investment)),
                   TRUE)
    ELSE Evaluated(first, FALSE)

\* const totalPrice = price1 + price2; let contracts = investment /
\* totalPrice.  With both prices 0 the count is Infinity (or NaN for
\* investment 0): the payout is then Infinity and every product of the count
\* with a price is NaN.
InitialContracts(price1, price2, investment) ==
    DDiv(investment, DAdd(price1, price2))

\* lines 199-227 and 246 of checkArbitrageOpportunity
EvaluateCombination(platform1, price1, platform2, price2, investment) ==
    RescaleIfOver(platform1, price1, platform2, price2, investment,
                  CostPass(platform1, price1, platform2, price2,
                           InitialContracts(price1, price2, investment)))

\* the slip of admitting a zero profit
SurfaceIfProfitable_geq(platform1, side1, price1, platform2, side2, price2, e) ==
    IF DLeq(DZero, e.profit.netProfit)
    THEN Opportunity(platform1, side1, price1, platform2, side2, price2,
                     e.contracts, e.cost1, e.cost2, e.profit)
    ELSE Null

\* lines 229-244 and 248-265: only return if profitable
SurfaceIfProfitable(platform1, side1, price1, platform2, side2, price2, e) ==
    IF DLess(DZero, e.profit.netProfit)
    THEN Opportunity(platform1, side1, price1, platform2, side2, price2,
                     e.contracts, e.cost1, e.cost2, e.profit)
    ELSE Null

checkArbitrageOpportunity(platform1, side1, price1, platform2, side2, price2, investment) ==
    SurfaceIfProfitable(platform1, side1, price1, platform2, side2, price2,
                        EvaluateCombination(platform1, price1, platform2,
                                            price2, investment))

\* a missing field, as in market.yes_price on a record without it
Undefined == [undefined |-> TRUE]

\* a || b || 0.5 on price fields: undefined, 0 and NaN are falsy
PriceOrDefault(a, b) ==
    IF a # Undefined /\ DTruthy(a) THEN a
    ELSE IF b # Undefined /\ DTruthy(b) THEN b
    ELSE DOfRat(Rat(1, 2))

\* the prices calculateArbitrage reads from the two market records
KalshiYesPrice(kalshiMarket) ==
    PriceOrDefault(kalshiMarket.yes_price, kalshiMarket.price)

PolyYesPrice(polyMarket) ==
    PriceOrDefault(polyMarket.yes_price, polyMarket.price)

\* Opportunity 1: buy YES on Kalshi, NO on Polymarket
Opp1(kalshiMarket, polyMarket, investment) ==
    checkArbitrageOpportunity("kalshi", "yes", KalshiYesPrice(kalshiMarket),
                              "polymarket", "no",
                              DSub(DOfInt(1), PolyYesPrice(polyMarket)),
                              investment)

\* the slip of pricing the second combination as the first
Opp2_firstPrices(kalshiMarket, polyMarket, investment) ==
    checkArbitrageOpportunity("kalshi", "no", KalshiYesPrice(kalshiMarket),
                              "polymarket", "yes",
                              DSub(DOfInt(1), PolyYesPrice(polyMarket)),
                              investment)

\* Opportunity 2: buy NO on Kalshi, YES on Polymarket
Opp2(kalshiMarket, polyMarket, investment) ==
    checkArbitrageOpportunity("kalshi", "no",
                              DSub(DOfInt(1), KalshiYesPrice(kalshiMarket)),
                              "polymarket", "yes", PolyYesPrice(polyMarket),
                              investment)

\* lines 151-173: push the non-null results, sort by netProfit descending,
\* return the first; null when the list is empty
BestOpportunity(opp1, opp2) ==
    IF opp1 = Null THEN opp2
    ELSE IF opp2 = Null THEN opp1
    ELSE IF DLess(opp1.netProfit, opp2.netProfit) THEN opp2
    ELSE opp1

\* the slip of looking at the first combination only
calculateArbitrage_firstOnly(kalshiMarket, polyMarket, investment) ==
    Opp1(kalshiMarket, polyMarket, investment)

calculateArbitrage(kalshiMarket, polyMarket, investment) ==
    BestOpportunity(Opp1(kalshiMarket, polyMarket, investment),
                    Opp2(kalshiMarket, polyMarket, investment))

\* lines 281-289: { ...arb, kalshiMarket, polymarketMarket, similarity,
\* matchConfidence }
OpportunityOf(arb, match) ==
    [kalshiMarket |-> match.kalshi,
     polymarketMarket |-> match.polymarket,
     similarity |-> match.similarity,
     matchConfidence |-> match.matchConfidence] @@ arb

\* lines 280-290: if (arb) opportunities.push(...)
PushIfArb(opportunities, arb, match) ==
    IF arb = Null THEN opportunities
    ELSE Append(opportunities, OpportunityOf(arb, match))

\* stable insertion into a list sorted by descending profitPercent
RECURSIVE InsertByProfitPercent(_, _)
InsertByProfitPercent(x, sorted) ==
    IF sorted = <<>> THEN <<x>>
    ELSE IF DLess(Head(sorted).profitPercent, x.profitPercent)
    THEN <<x>> \o sorted
    ELSE <<Head(sorted)>> \o InsertByProfitPercent(x, Tail(sorted))

RECURSIVE SortFrom(_, _, _)
SortFrom(opportunities, i, acc) ==
    IF i > Len(opportunities) THEN acc
    ELSE SortFrom(opportunities, i + 1,
                  InsertByProfitPercent(opportunities[i], acc))

\* the slip of returning the opportunities in the order of the pairs
SortByProfitPercent_unsorted(opportunities) == opportunities

\* line 294: opportunities.sort((a, b) => b.profitPercent - a.profitPercent)
SortByProfitPercent(opportunities) == SortFrom(opportunities, 1, <<>>)

-----------------------------------------------------------------------------
(* Text handling of src/arbitrage.js.  A string is a sequence of           *)
(* one-character strings.                                                  *)

UpperCase == <<"A", "B", "C", "D", "E", "F", "G", "H", "I", "J", "K", "L", "M", "N", "O", "P", "Q", "R", "S", "T", "U", "V", "W", "X", "Y", "Z">>

LowerCase == <<"a", "b", "c", "d", "e", "f", "g", "h", "i", "j", "k", "l", "m", "n", "o", "p", "q", "r", "s", "t", "u", "v", "w", "x", "y", "z">>

Digits == {"0", "1", "2", "3", "4", "5", "6", "7", "8", "9"}

\* the characters \s matches, among those the model's titles use
Whitespace == {" ", "\t", "\n"}

UpperSet == {UpperCase[i] : i \in 1..26}

LowerSet == {LowerCase[i] : i \in 1..26}

\* [A-Z]
IsUpper(c) == c \in UpperSet

\* [a-z]
IsLower(c) == c \in LowerSet

IsDigit(c) == c \in Digits

IsSpace(c) == c \in Whitespace

\* \w
IsWordChar(c) == IsUpper(c) \/ IsLower(c) \/ IsDigit(c) \/ c = "_"

ToLowerChar(c) ==
    IF IsUpper(c) THEN LowerCase[CHOOSE i \in 1..26 : UpperCase[i] = c] ELSE c

\* text.toLowerCase()
toLowerCase(text) == [i \in 1..Len(text) |-> ToLowerChar(text[i])]

\* .replace(/[^a-z0-9\s]/g, ' ')
ReplaceNonAlnum(text) ==
    [i \in 1..Len(text) |->
        IF IsLower(text[i]) \/ IsDigit(text[i]) \/ IsSpace(text[i])
        THEN text[i] ELSE " "]

\* .trim()
trim(text) ==
    IF \A i \in 1..Len(text) : IsSpace(text[i]) THEN <<>>
    ELSE SubSeq(text,
                CHOOSE i \in 1..Len(text) :
                    /\ ~IsSpace(text[i])
                    /\ \A k \in 1..(i - 1) : IsSpace(text[k]),
                CHOOSE j \in 1..Len(text) :
                    /\ ~IsSpace(text[j])
                    /\ \A k \in (j + 1)..Len(text) : IsSpace(text[k]))

\* const normalized = text.toLowerCase().replace(/[^a-z0-9\s]/g, ' ').trim()
normalize(text) == trim(ReplaceNonAlnum(toLowerCase(text)))

\* \b at the gap before position i (1 <= i <= Len(text) + 1)
WordBoundary(text, i) ==
    (i > 1 /\ IsWordChar(text[i - 1])) # (i <= Len(text) /\ IsWordChar(text[i]))

\* (20\d{2}|2100) at positions i..i+3
IsYearAt(text, i) ==
    /\ i + 3 <= Len(text)
    /\ \/ /\ text[i] = "2" /\ text[i + 1] = "0"
          /\ IsDigit(text[i + 2]) /\ IsDigit(text[i + 3])
       \/ /\ text[i] = "2" /\ text[i + 1] = "1"
          /\ text[i + 2] = "0" /\ text[i + 3] = "0"

\* new Set(normalized.match(/\b(20\d{2}|2100)\b/g) || [])
\* (both ends of a match are word boundaries, so matches cannot overlap)
YearSet(normalized) ==
    {SubSeq(normalized, i, i + 3) : i \in
        {k \in 1..Len(normalized) :
            /\ IsYearAt(normalized, k)
            /\ WordBoundary(normalized, k)
            /\ WordBoundary(normalized, k + 4)}}

\* last position of the run of digits that holds position j
RECURSIVE DigitRunEnd(_, _)
DigitRunEnd(text, j) ==
    IF j < Len(text) /\ IsDigit(text[j + 1]) THEN DigitRunEnd(text, j + 1) ELSE j

\* new Set(normalized.match(/\b\d+(?:\.\d+)?\b/g) || []): normalized holds no
\* ".", so a match is a run of digits with a word boundary on both sides
NumberSet(normalized) ==
    {SubSeq(normalized, i, DigitRunEnd(normalized, i)) : i \in
        {k \in 1..Len(normalized) :
            /\ IsDigit(normalized[k])
            /\ WordBoundary(normalized, k)
            /\ WordBoundary(normalized, DigitRunEnd(normalized, k) + 1)}}

\* normalized.split(/\s+/)
RECURSIVE SplitFrom(_, _, _, _)
SplitFrom(text, i, cur, acc) ==
    IF i > Len(text) THEN Append(acc, cur)
    ELSE IF IsSpace(text[i])
         THEN IF i > 1 /\ IsSpace(text[i - 1])
              THEN SplitFrom(text, i + 1, cur, acc)
              ELSE SplitFrom(text, i + 1, <<>>, Append(acc, cur))
         ELSE SplitFrom(text, i + 1, Append(cur, text[i]), acc)

split(text) == SplitFrom(text, 1, <<>>, <<>>)

stopWords ==
    { <<"w","i","l","l">>, <<"b","e">>, <<"t","h","e">>, <<"a">>, <<"a","n">>,
      <<"i","n">>, <<"o","n">>, <<"a","t">>, <<"t","o">>, <<"f","o","r">>,
      <<"o","f">>, <<"b","y">>, <<"b","e","f","o","r","e">>,
      <<"a","f","t","e","r">>, <<"t","h","a","n">>, <<"m","o","r","e">>,
      <<"l","e","s","s">>, <<"h","a","v","e">>, <<"h","a","s">>, <<"i","s">>,
      <<"a","r","e">>, <<"w","a","s">>, <<"w","e","r","e">>,
      <<"b","e","e","n">>, <<"b","e","i","n","g">> }

\* new Set(normalized.split(/\s+/).filter(w => w.length > 2 && !stopWords.has(w)))
WordSetOf(tokens) ==
    {tokens[i] : i \in {k \in 1..Len(tokens) :
                          Len(tokens[k]) > 2 /\ tokens[k] \notin stopWords}}

WordSet(normalized) == WordSetOf(split(normalized))

\* last position of the run of lower-case letters that holds position j
RECURSIVE LowerRunEnd(_, _)
LowerRunEnd(text, j) ==
    IF j < Len(text) /\ IsLower(text[j + 1]) THEN LowerRunEnd(text, j + 1) ELSE j

\* last position of the whitespace run that starts after position j (j if none)
RECURSIVE SpaceRunEnd(_, _)
SpaceRunEnd(text, j) ==
    IF j < Len(text) /\ IsSpace(text[j + 1]) THEN SpaceRunEnd(text, j + 1) ELSE j

\* [A-Z][a-z]+ at position i: the position of its last letter, 0 if no match
CapWordEnd(text, i) ==
    IF i + 1 <= Len(text) /\ IsUpper(text[i]) /\ IsLower(text[i + 1])
    THEN LowerRunEnd(text, i + 1)
    ELSE 0

\* (?:\s+[A-Z][a-z]+)*\b after a capitalised word ending at j: the greedy
\* repetition, given up word by word until the match ends at a word
\* boundary; 0 if not even the first word does
RECURSIVE NameEndFrom(_, _)
NameEndFrom(text, j) ==
    LET k == SpaceRunEnd(text, j)
        w == IF k > j THEN CapWordEnd(text, k + 1) ELSE 0
        e == IF w > 0 THEN NameEndFrom(text, w) ELSE 0
    IN  IF e > 0 THEN e
        ELSE IF WordBoundary(text, j + 1) THEN j
        ELSE 0

\* /\b[A-Z][a-z]+(?:\s+[A-Z][a-z]+)*\b/ at position i: last position of the
\* match, 0 if none
NameMatchEnd(text, i) ==
    IF WordBoundary(text, i) /\ CapWordEnd(text, i) > 0
    THEN NameEndFrom(text, CapWordEnd(text, i))
    ELSE 0

\* text.match(namePattern) || []: the global scan resumes after each match
RECURSIVE NameMatchesFrom(_, _)
NameMatchesFrom(text, i) ==
    IF i > Len(text) THEN {}
    ELSE IF NameMatchEnd(text, i) > 0
         THEN {SubSeq(text, i, NameMatchEnd(text, i))}
              \cup NameMatchesFrom(text, NameMatchEnd(text, i) + 1)
         ELSE NameMatchesFrom(text, i + 1)

\* new Set(names.map(n => n.toLowerCase()))
NameSet(text) == {toLowerCase(n) : n \in NameMatchesFrom(text, 1)}

\* lines 11-33 of extractKeyEntities, given the normalized text
EntitiesOf(text, normalized) ==
    [years |-> YearSet(normalized),
     words |-> WordSet(normalized),
     names |-> NameSet(text),
     numbers |-> NumberSet(normalized),
     normalized |-> normalized]

extractKeyEntities(text) == EntitiesOf(text, normalize(text))

\* a.includes(b)
includes(a, b) ==
    \E i \in 0..(Len(a) - Len(b)) : SubSeq(a, i + 1, i + Len(b)) = b

wordWeight == DOfRat(Rat(60, 100))

nameWeight == DOfRat(Rat(25, 100))

numberWeight == DOfRat(Rat(15, 100))

\* union.size > 0 ? intersection.size / union.size : 0, a double
setScore(set1, set2) ==
    IF set1 \cup set2 = {} THEN DZero
    ELSE DDiv(DOfInt(Cardinality(set1 \cap set2)),
              DOfInt(Cardinality(set1 \cup set2)))

\* Strategies 4-6 and the weighted combination
\* (wordScore * 0.6) + (nameScore * 0.25) + (numberScore * 0.15), each
\* product and each sum rounded to a double
finalScore(e1, e2) ==
    DAdd(DAdd(DMul(setScore(e1.words, e2.words), wordWeight),
              DMul(setScore(e1.names, e2.names), nameWeight)),
         DMul(setScore(e1.numbers, e2.numbers), numberWeight))

\* Strategy 3: both titles carry years and share none
YearsConflict(e1, e2) ==
    /\ e1.years # {}
    /\ e2.years # {}
    /\ e1.years \cap e2.years = {}

\* the slip of leaving out the exact-match strategy
SimilarityOf_noExact(e1, e2) ==
    IF includes(e1.normalized, e2.normalized)
       \/ includes(e2.normalized, e1.normalized)
    THEN DOfRat(Rat(85, 100))
    ELSE IF YearsConflict(e1, e2) THEN DZero
    ELSE finalScore(e1, e2)

\* the slip of testing containment in one direction only
SimilarityOf_oneWay(e1, e2) ==
    IF e1.normalized = e2.normalized THEN DOfInt(1)
    ELSE IF includes(e1.normalized, e2.normalized) THEN DOfRat(Rat(85, 100))
    ELSE IF YearsConflict(e1, e2) THEN DZero
    ELSE finalScore(e1, e2)

\* lines 48-89 of calculateSimilarity, on the two entity records; the value
\* is a double
SimilarityOf(e1, e2) ==
    IF e1.normalized = e2.normalized THEN DOfInt(1)
    ELSE IF includes(e1.normalized, e2.normalized)
            \/ includes(e2.normalized, e1.normalized)
    THEN DOfRat(Rat(85, 100))
    ELSE IF YearsConflict(e1, e2) THEN DZero
    ELSE finalScore(e1, e2)

\* if (!str1 || !str2) return 0: the empty string is falsy
calculateSimilarity(str1, str2) ==
    IF str1 = <<>> \/ str2 = <<>> THEN DZero
    ELSE SimilarityOf(extractKeyEntities(str1), extractKeyEntities(str2))

-----------------------------------------------------------------------------
(* Greedy matcher: findMatchingMarkets of src/arbitrage.js.  A market is a *)
(* record; a property the object lacks is a field the record lacks.        *)

\* m.title || m.question || '': a missing or empty string is falsy
TitleOf(m) ==
    IF "title" \in DOMAIN m /\ m.title # <<>> THEN m.title
    ELSE IF "question" \in DOMAIN m /\ m.question # <<>> THEN m.question
    ELSE <<>>

\* bestSimilarity >= 0.7 ? 'high' : bestSimilarity >= 0.5 ? 'medium' : 'low'
matchConfidence(similarity) ==
    IF DLeq(DOfRat(Rat(7, 10)), similarity) THEN "high"
    ELSE IF DLeq(DOfRat(Rat(5, 10)), similarity) THEN "medium"
    ELSE "low"

\* let bestMatch = null; let bestSimilarity = 0
NoBest == [bestMatch |-> Null, bestSimilarity |-> DZero]

\* the slip of a strict threshold test
Consider_strict(best, polyMarket, similarity, minSimilarity) ==
    IF /\ DLess(DOfRat(minSimilarity), similarity)
       /\ DLess(best.bestSimilarity, similarity)
    THEN [bestMatch |-> polyMarket, bestSimilarity |-> similarity]
    ELSE best

\* lines 116-119: the candidate replaces the best so far when it reaches the
\* threshold and is strictly better.  minSimilarity is the decimal fraction
\* the caller wrote, compared as the double nearest to it.
Consider(best, polyMarket, similarity, minSimilarity) ==
    IF /\ DLeq(DOfRat(minSimilarity), similarity)
       /\ DLess(best.bestSimilarity, similarity)
    THEN [bestMatch |-> polyMarket, bestSimilarity |-> similarity]
    ELSE best

\* lines 107-120: the inner loop from position j on
RECURSIVE ScanPoly(_, _, _, _, _, _)
ScanPoly(kalshiMarket, polymarketMarkets, j, used, minSimilarity, best) ==
    IF j > Len(polymarketMarkets) THEN best
    ELSE IF polymarketMarkets[j].id \in used
         THEN ScanPoly(kalshiMarket, polymarketMarkets, j + 1, used,
                       minSimilarity, best)
         ELSE ScanPoly(kalshiMarket, polymarketMarkets, j + 1, used,
                       minSimilarity,
                       Consider(best, polymarketMarkets[j],
                                calculateSimilarity(
                                    TitleOf(kalshiMarket),
                                    TitleOf(polymarketMarkets[j])),
                                minSimilarity))

\* lines 124-129: the pair pushed for a best match
MatchedPair(kalshiMarket, best) ==
    [kalshi |-> kalshiMarket,
     polymarket |-> best.bestMatch,
     similarity |-> best.bestSimilarity,
     matchConfidence |-> matchConfidence(best.bestSimilarity)]

\* lines 122-130: if (bestMatch) claim it and push the pair
Claim(state, kalshiMarket, best) ==
    IF best.bestMatch = Null THEN state
    ELSE [matches |-> Append(state.matches, MatchedPair(kalshiMarket, best)),
          used |-> state.used \cup {best.bestMatch.id}]

\* one iteration of the outer loop (lines 103-131)
MatchOne(state, kalshiMarket, polymarketMarkets, minSimilarity) ==
    Claim(state, kalshiMarket,
          ScanPoly(kalshiMarket, polymarketMarkets, 1, state.used,
                   minSimilarity, NoBest))

RECURSIVE MatchFrom(_, _, _, _, _)
MatchFrom(i, state, kalshiMarkets, polymarketMarkets, minSimilarity) ==
    IF i > Len(kalshiMarkets) THEN state
    ELSE MatchFrom(i + 1,
                   MatchOne(state, kalshiMarkets[i], polymarketMarkets,
                            minSimilarity),
                   kalshiMarkets, polymarketMarkets, minSimilarity)

\* the whole pass: the list returned
findMatchingMarkets(kalshiMarkets, polymarketMarkets, minSimilarity) ==
    MatchFrom(1, [matches |-> <<>>, used |-> {}], kalshiMarkets,
              polymarketMarkets, minSimilarity).matches

-----------------------------------------------------------------------------
(* Backend: src/backend/routes/system.js, src/backend/routes/opportunities.js, *)
(* src/backend/services/matching/engine.js, src/backend/services/db.js and *)
(* the vector-index module (indexMarkets).  An index item is the market    *)
(* record it was inserted for; the cosine score of two stored vectors is   *)
(* read from a table.                                                      *)

\* stable insertion of x into a list sorted by descending key
RECURSIVE InsertDesc(_, _)
InsertDesc(x, sorted) ==
    IF sorted = <<>> THEN <<x>>
    ELSE IF RLess(Head(sorted).key, x.key) THEN <<x>> \o sorted
    ELSE <<Head(sorted)>> \o InsertDesc(x, Tail(sorted))

\* Array.prototype.sort((a, b) => b.key - a.key), which is stable
RECURSIVE SortDescFrom(_, _, _)
SortDescFrom(list, i, acc) ==
    IF i > Len(list) THEN acc
    ELSE SortDescFrom(list, i + 1, InsertDesc(list[i], acc))

SortDesc(list) == SortDescFrom(list, 1, <<>>)

\* list.slice(0, n)
Take(list, n) == SubSeq(list, 1, IF Len(list) < n THEN Len(list) ELSE n)

\* list without the items carrying id
RECURSIVE WithoutId(_, _)
WithoutId(list, id) ==
    IF list = <<>> THEN <<>>
    ELSE IF Head(list).id = id THEN WithoutId(Tail(list), id)
    ELSE <<Head(list)>> \o WithoutId(Tail(list), id)

\* module.exports = router: what require('./system') yields, by property.
\* The router carries its routes and no isIndexing.
system == [stack |-> <<"/refresh", "/stats", "/health">>]

\* system.isIndexing && system.isIndexing()
Locked == "isIndexing" \in DOMAIN system /\ system.isIndexing

\* saveDbMetadata(kalshiCount, polymarketCount); lastUpdate counts the writes
saveDbMetadata(meta, kalshiCount, polymarketCount) ==
    [lastUpdate |-> IF meta = Null THEN 1 ELSE meta.lastUpdate + 1,
     kalshiCount |-> kalshiCount,
     polymarketCount |-> polymarketCount]

\* getDbStats(): the file's contents, or the default record without a file
getDbStats(meta) ==
    IF meta = Null
    THEN [lastUpdate |-> 0, kalshiCount |-> 0, polymarketCount |-> 0]
    ELSE meta

\* markets.sort((a, b) => (b.volume24h || 0) - (a.volume24h || 0)).slice(0, limit)
vectorLimit == 100

KeyedByVolume(markets) ==
    [i \in 1..Len(markets) |-> [key |-> RInt(markets[i].volume24h), item |-> markets[i]]]

Items(keyed) == [i \in 1..Len(keyed) |-> keyed[i].item]

\* markets.sort((a, b) => (b.volume24h || 0) - (a.volume24h || 0))
SortedByVolume(markets) == Items(SortDesc(KeyedByVolume(markets)))

\* the sorted array .slice(0, limit)
topMarkets(markets) == Take(SortedByVolume(markets), vectorLimit)

\* cosine similarity of the stored vectors of a Polymarket and a Kalshi item
VectorScores ==
    [P1 |-> [K1 |-> Rat(90, 100), K2 |-> Rat(80, 100), K3 |-> Rat(78, 100),
             K4 |-> Rat(76, 100), K5 |-> Rat(74, 100), K6 |-> Rat(65, 100)],
     P2 |-> [K1 |-> Rat(85, 100), K2 |-> Rat(70, 100), K3 |-> Rat(84, 100),
             K4 |-> Rat(83, 100), K5 |-> Rat(82, 100), K6 |-> Rat(65, 100)],
     P3 |-> [K1 |-> Rat(88, 100), K2 |-> Rat(87, 100), K3 |-> Rat(86, 100),
             K4 |-> Rat(80, 100), K5 |-> Rat(79, 100), K6 |-> Rat(65, 100)],
     P4 |-> [K1 |-> Rat(90, 100), K2 |-> Rat(89, 100), K3 |-> Rat(88, 100),
             K4 |-> Rat(87, 100), K5 |-> Rat(67, 100), K6 |-> Rat(65, 100)],
     P5 |-> [K1 |-> Rat(90, 100), K2 |-> Rat(89, 100), K3 |-> Rat(88, 100),
             K4 |-> Rat(87, 100), K5 |-> Rat(66, 100), K6 |-> Rat(65, 100)],
     P6 |-> [K1 |-> Rat(75, 100), K2 |-> Rat(74, 100), K3 |-> Rat(73, 100),
             K4 |-> Rat(72, 100), K5 |-> Rat(71, 100), K6 |-> Rat(70, 100)]]

queryTopK == 5

\* kalshiIndex.queryItems(polyItem.vector, 5): the items by descending score
queryItems(index, polyItem, topK) ==
    Take(SortDesc([i \in 1..Len(index) |->
                      [key |-> VectorScores[polyItem.id][index[i].id],
                       item |-> index[i]]]),
         topK)

\* result.score >= 0.8 ? 'high' : result.score >= 0.65 ? 'medium' : 'low'
dbMatchConfidence(score) ==
    IF RLeq(Rat(80, 100), score) THEN "high"
    ELSE IF RLeq(Rat(65, 100), score) THEN "medium"
    ELSE "low"

\* lines 48-61 of findMatchesFromDb: position of the first result that
\* reaches the threshold and is not used, 0 if there is none
RECURSIVE FirstAcceptable(_, _, _, _)
FirstAcceptable(results, j, minSimilarity, usedKalshi) ==
    IF j > Len(results) THEN 0
    ELSE IF RLess(results[j].key, minSimilarity) THEN
        FirstAcceptable(results, j + 1, minSimilarity, usedKalshi)
    ELSE IF results[j].item.id \in usedKalshi THEN
        FirstAcceptable(results, j + 1, minSimilarity, usedKalshi)
    ELSE j

DbMatch(polyItem, result) ==
    [polymarket |-> polyItem,
     kalshi |-> result.item,
     similarity |-> result.key,
     key |-> result.key,
     matchConfidence |-> dbMatchConfidence(result.key)]

\* the locals of findMatchesFromDb after the inner loop took results[j]
TakeResult(rq, results, j) ==
    IF j = 0 THEN rq
    ELSE [rq EXCEPT !.matches = Append(@, DbMatch(rq.polyItems[rq.pos], results[j])),
                    !.usedKalshi = @ \cup {results[j].item.id}]

\* lines 63-69: leave the loop at the end of polyItems or at maxResults,
\* then matches.sort((a, b) => b.similarity - a.similarity) and return
AdvanceLoop(rq) ==
    IF rq.pos >= Len(rq.polyItems) \/ Len(rq.matches) >= rq.maxResults
    THEN [rq EXCEPT !.pc = "stats", !.matches = SortDesc(@)]
    ELSE [rq EXCEPT !.pos = @ + 1]

-----------------------------------------------------------------------------
(* Entity extraction and comparison of the advanced matcher:               *)
(* extractEntities and compareEntities of src/unnamed/part_003.  The model *)
(* keeps the parts of an entity record that compareEntities reads (dates,  *)
(* names, thresholds, topics, hasNegation, words); numbers and actions are *)
(* extracted by the code and read by nothing.                              *)

\* the literal word at position i of text
LiteralAt(text, i, word) ==
    /\ i >= 1
    /\ i + Len(word) - 1 <= Len(text)
    /\ SubSeq(text, i, i + Len(word) - 1) = word

\* 20\d{2} at positions i..i+3
IsYear20At(text, i) ==
    /\ i >= 1
    /\ i + 3 <= Len(text)
    /\ text[i] = "2"
    /\ text[i + 1] = "0"
    /\ IsDigit(text[i + 2])
    /\ IsDigit(text[i + 3])

\* normalized.match(/\b(20\d{2})\b/g)
yearMatch(normalized) ==
    {SubSeq(normalized, i, i + 3) : i \in
        {k \in 1..Len(normalized) :
            /\ IsYear20At(normalized, k)
            /\ WordBoundary(normalized, k)
            /\ WordBoundary(normalized, k + 4)}}

\* (january|february|march|april|may|june|july|august|september|october|november|december)
monthNames ==
    { <<"j", "a", "n", "u", "a", "r", "y">>,
      <<"f", "e", "b", "r", "u", "a", "r", "y">>,
      <<"m", "a", "r", "c", "h">>,
      <<"a", "p", "r", "i", "l">>,
      <<"m", "a", "y">>,
      <<"j", "u", "n", "e">>,
      <<"j", "u", "l", "y">>,
      <<"a", "u", "g", "u", "s", "t">>,
      <<"s", "e", "p", "t", "e", "m", "b", "e", "r">>,
      <<"o", "c", "t", "o", "b", "e", "r">>,
      <<"n", "o", "v", "e", "m", "b", "e", "r">>,
      <<"d", "e", "c", "e", "m", "b", "e", "r">> }

\* \d{n},?\s*20\d{2} from position p on: the last position of the match, 0
\* if there is none.  The comma and the spaces are taken when they are
\* there: giving them back leaves a character that is not the 2 of the year.
DayAndYearEnd(text, p, n) ==
    IF p + n - 1 <= Len(text) /\ \A d \in p..(p + n - 1) : IsDigit(text[d])
    THEN LET q == p + n - 1
             c == IF q < Len(text) /\ text[q + 1] = "," THEN q + 1 ELSE q
             s == SpaceRunEnd(text, c)
         IN  IF IsYear20At(text, s + 1) THEN s + 4 ELSE 0
    ELSE 0

\* \s+\d{1,2}?,?\s*20\d{2} after a month name that ends at j: the lazy
\* \d{1,2}? takes one digit if the rest then matches, and two otherwise
MonthTailEnd(text, j) ==
    IF SpaceRunEnd(text, j) = j THEN 0
    ELSE IF DayAndYearEnd(text, SpaceRunEnd(text, j) + 1, 1) > 0
         THEN DayAndYearEnd(text, SpaceRunEnd(text, j) + 1, 1)
         ELSE DayAndYearEnd(text, SpaceRunEnd(text, j) + 1, 2)

\* /\b(january|...|december)\s+\d{1,2}?,?\s*20\d{2}/ at position i: the
\* last position of the match, 0 if there is none
MonthYearEnd(text, i) ==
    LET ms == {m \in monthNames : LiteralAt(text, i, m)}
    IN  IF WordBoundary(text, i) /\ ms # {}
        THEN MonthTailEnd(text, i + Len(CHOOSE m \in ms : TRUE) - 1)
        ELSE 0

\* normalized.match(monthYear pattern with the g flag) || []: the scan
\* resumes after each match
RECURSIVE monthYearMatch(_, _)
monthYearMatch(text, i) ==
    IF i > Len(text) THEN {}
    ELSE IF MonthYearEnd(text, i) > 0
         THEN {SubSeq(text, i, MonthYearEnd(text, i))}
              \cup monthYearMatch(text, MonthYearEnd(text, i) + 1)
         ELSE monthYearMatch(text, i + 1)

\* ['Will Be', 'United States', 'New York', 'Los Angeles', 'White House']
commonNonNames ==
    { <<"W", "i", "l", "l", " ", "B", "e">>,
      <<"U", "n", "i", "t", "e", "d", " ", "S", "t", "a", "t", "e", "s">>,
      <<"N", "e", "w", " ", "Y", "o", "r", "k">>,
      <<"L", "o", "s", " ", "A", "n", "g", "e", "l", "e", "s">>,
      <<"W", "h", "i", "t", "e", " ", "H", "o", "u", "s", "e">> }

\* ([A-Z][a-z]+(?:\s+[A-Z][a-z]+)+)\b with the group starting at position i:
\* the last position of the match, 0 if there is none
FullNameEnd(text, i) ==
    LET j == CapWordEnd(text, i)
        k == IF j > 0 THEN SpaceRunEnd(text, j) ELSE 0
        w == IF k > j THEN CapWordEnd(text, k + 1) ELSE 0
    IN  IF w > 0 THEN NameEndFrom(text, w) ELSE 0

\* (?:^|\s) at position i: the position where the group starts, 0 if the
\* pattern does not match at i
FullNameStart(text, i) ==
    IF i = 1 /\ FullNameEnd(text, 1) > 0 THEN 1
    ELSE IF IsSpace(text[i]) /\ FullNameEnd(text, i + 1) > 0 THEN i + 1
    ELSE 0

\* while ((nameMatch = namePattern.exec(text)) !== null): group 1 of every
\* match, the scan resuming after each match
RECURSIVE nameMatches(_, _)
nameMatches(text, i) ==
    IF i > Len(text) THEN {}
    ELSE IF FullNameStart(text, i) > 0
         THEN {SubSeq(text, FullNameStart(text, i),
                      FullNameEnd(text, FullNameStart(text, i)))}
              \cup nameMatches(text,
                               FullNameEnd(text, FullNameStart(text, i)) + 1)
         ELSE nameMatches(text, i + 1)

\* the names pushed: the matches outside the list, in lower case
fullNames(text) ==
    {toLowerCase(name) : name \in nameMatches(text, 1) \ commonNonNames}

\* (%|percent|million|billion|trillion|cents?|dollars?|\$) without the
\* optional s
unitWords ==
    { <<"%">>,
      <<"p", "e", "r", "c", "e", "n", "t">>,
      <<"m", "i", "l", "l", "i", "o", "n">>,
      <<"b", "i", "l", "l", "i", "o", "n">>,
      <<"t", "r", "i", "l", "l", "i", "o", "n">>,
      <<"c", "e", "n", "t">>,
      <<"d", "o", "l", "l", "a", "r">>,
      <<"$">> }

\* the unit alternative at position i: its last position, 0 if there is none
UnitEnd(text, i) ==
    LET us == {u \in unitWords : LiteralAt(text, i, u)}
        u == CHOOSE x \in us : TRUE
        e == i + Len(u) - 1
    IN  IF us = {} THEN 0
        ELSE IF Len(u) > 1 /\ u[1] \in {"c", "d"} /\ e < Len(text)
                /\ text[e + 1] = "s"
        THEN e + 1
        ELSE e

\* (\d+(?:\.\d+)?)\s*(unit) at position i: the last position of the match,
\* 0 if there is none
ThresholdEnd(text, i) ==
    IF ~IsDigit(text[i]) THEN 0
    ELSE LET a == DigitRunEnd(text, i)
             b == IF a + 2 <= Len(text) /\ text[a + 1] = "."
                     /\ IsDigit(text[a + 2])
                  THEN DigitRunEnd(text, a + 2)
                  ELSE a
         IN  UnitEnd(text, SpaceRunEnd(text, b) + 1)

\* normalized.match(threshold pattern with the g flag) || []
RECURSIVE thresholdMatch(_, _)
thresholdMatch(text, i) ==
    IF i > Len(text) THEN {}
    ELSE IF ThresholdEnd(text, i) > 0
         THEN {SubSeq(text, i, ThresholdEnd(text, i))}
              \cup thresholdMatch(text, ThresholdEnd(text, i) + 1)
         ELSE thresholdMatch(text, i + 1)

\* (not|won't|will not|no|never)
negationWords ==
    { <<"n", "o", "t">>,
      <<"w", "o", "n", "'", "t">>,
      <<"w", "i", "l", "l", " ", "n", "o", "t">>,
      <<"n", "o">>,
      <<"n", "e", "v", "e", "r">> }

\* /\b(word)\b/ matches somewhere in text
HasWord(text, word) ==
    \E i \in 1..Len(text) :
        /\ LiteralAt(text, i, word)
        /\ WordBoundary(text, i)
        /\ WordBoundary(text, i + Len(word))

\* /\b(not|won't|will not|no|never)\b/i.test(normalized)
hasNegation(normalized) == \E w \in negationWords : HasWord(normalized, w)

\* the alternatives of the two topicPatterns
topicWords ==
    { <<"p", "r", "e", "s", "i", "d", "e", "n", "t">>,
      <<"e", "l", "e", "c", "t", "i", "o", "n">>,
      <<"r", "e", "c", "e", "s", "s", "i", "o", "n">>,
      <<"g", "d", "p">>,
      <<"i", "n", "f", "l", "a", "t", "i", "o", "n">>,
      <<"b", "i", "t", "c", "o", "i", "n">>,
      <<"c", "r", "y", "p", "t", "o">>,
      <<"s", "t", "o", "c", "k">>,
      <<"m", "a", "r", "k", "e", "t">>,
      <<"f", "e", "d">>,
      <<"i", "n", "t", "e", "r", "e", "s", "t", " ", "r", "a", "t", "e">>,
      <<"t", "a", "r", "i", "f", "f">>,
      <<"w", "a", "r">>,
      <<"p", "e", "a", "c", "e">>,
      <<"p", "o", "p", "e">>,
      <<"c", "o", "n", "g", "r", "e", "s", "s">>,
      <<"s", "e", "n", "a", "t", "e">>,
      <<"h", "o", "u", "s", "e">>,
      <<"s", "u", "p", "e", "r", " ", "b", "o", "w", "l">>,
      <<"w", "o", "r", "l", "d", " ", "s", "e", "r", "i", "e", "s">>,
      <<"n", "b", "a">>,
      <<"n", "f", "l">>,
      <<"m", "l", "b">>,
      <<"o", "s", "c", "a", "r">>,
      <<"g", "r", "a", "m", "m", "y">>,
      <<"e", "m", "m", "y">>,
      <<"n", "o", "b", "e", "l">> }

\* the matches of both topic patterns, as a set: no alternative starts
\* inside a match of another, so every occurrence between word boundaries
\* is a match
topics(normalized) == {w \in topicWords : HasWord(normalized, w)}

\* normalized.replace(/[^a-z0-9\s]/g, ' ').split(/\s+/).filter(w => w.length > 2)
longWords(normalized) ==
    LET tokens == split(ReplaceNonAlnum(normalized))
    IN  {tokens[i] : i \in {k \in 1..Len(tokens) : Len(tokens[k]) > 2}}

\* extractEntities(text); a title that is missing or empty gives an entity
\* record without properties and no words
extractEntities(text) ==
    IF text = <<>> THEN [normalized |-> <<>>, entities |-> <<>>]
    ELSE LET normalized == toLowerCase(text)
         IN  [normalized |-> normalized,
              entities |->
                  [dates |-> yearMatch(normalized)
                                 \cup monthYearMatch(normalized, 1),
                   names |-> fullNames(text),
                   thresholds |-> thresholdMatch(normalized, 1),
                   topics |-> topics(normalized),
                   hasNegation |-> hasNegation(normalized)],
              words |-> longWords(normalized)]

\* the exception raised on reading a property of undefined
TypeError == [thrown |-> "TypeError"]

\* d.match(/20\d{2}/)?.[0]: the first 20dd of a date string
FirstYearIn(d) ==
    LET i == CHOOSE k \in 1..Len(d) :
                 /\ IsYear20At(d, k)
                 /\ \A m \in 1..(k - 1) : ~IsYear20At(d, m)
    IN  SubSeq(d, i, i + 3)

\* new Set(dates.map(d => d.match(/20\d{2}/)?.[0]).filter(Boolean))
YearsOf(dates) == {FirstYearIn(d) : d \in dates}

NotSpace(c) == ~IsSpace(c)

\* new Set(thresholds.map(t => t.replace(/\s/g, '')))
Squeezed(thresholds) == {SelectSeq(t, NotSpace) : t \in thresholds}

\* what one block of compareEntities adds to the result
Part(score, conflicts, matched) ==
    [score |-> score, conflicts |-> conflicts, matches |-> matched]

NoPart == Part(DZero, <<>>, <<>>)

\* the amounts the blocks add to result.score or take from it
yearBonus == DOfRat(Rat(2, 10))

yearPenalty == DOfRat(Rat(-3, 10))

nameBonus == DOfRat(Rat(25, 100))

namePenalty == DOfRat(Rat(-1, 10))

topicBonus == DOfRat(Rat(15, 100))

thresholdBonus == DOfRat(Rat(15, 100))

thresholdPenalty == DOfRat(Rat(-2, 10))

negationPenalty == DOfRat(Rat(-4, 10))

overlapWeight == DOfRat(Rat(3, 10))

\* lines 117-132: conflicting or shared years
YearPart(d1, d2) ==
    IF d1 # {} /\ d2 # {}
    THEN IF YearsOf(d1) \cap YearsOf(d2) # {}
         THEN Part(yearBonus, <<>>, <<"year">>)
         ELSE IF YearsOf(d1) # {} /\ YearsOf(d2) # {}
         THEN Part(yearPenalty, <<"different years">>, <<>>)
         ELSE NoPart
    ELSE NoPart

\* lines 134-148: shared names, or names on both sides and none shared
NamePart(n1, n2) ==
    IF n1 # {} \/ n2 # {}
    THEN IF n1 \cap n2 # {} THEN Part(nameBonus, <<>>, <<"names">>)
         ELSE IF n1 # {} /\ n2 # {} THEN Part(namePenalty, <<>>, <<>>)
         ELSE NoPart
    ELSE NoPart

\* lines 150-160: shared topics
TopicPart(t1, t2) ==
    IF (t1 # {} \/ t2 # {}) /\ t1 \cap t2 # {}
    THEN Part(topicBonus, <<>>, <<"topics">>)
    ELSE NoPart

\* lines 162-176: shared or conflicting thresholds
ThresholdPart(t1, t2) ==
    IF t1 # {} /\ t2 # {}
    THEN IF Squeezed(t1) \cap Squeezed(t2) # {}
         THEN Part(thresholdBonus, <<>>, <<"thresholds">>)
         ELSE Part(thresholdPenalty, <<"different thresholds">>, <<>>)
    ELSE NoPart

\* lines 178-182: negation on one side only
NegationPart(n1, n2) ==
    IF n1 # n2 THEN Part(negationPenalty, <<"negation mismatch">>, <<>>)
    ELSE NoPart

\* the blocks in the order the code runs them
EntityParts(a, b) ==
    << YearPart(a.dates, b.dates),
       NamePart(a.names, b.names),
       TopicPart(a.topics, b.topics),
       ThresholdPart(a.thresholds, b.thresholds),
       NegationPart(a.hasNegation, b.hasNegation) >>

\* result.score, result.conflicts and result.matches after the blocks, each
\* += and -= rounded to a double in the order of the blocks (a block that
\* does not fire adds 0, which leaves the double as it is), then the word
\* overlap: result.score += wordOverlap * 0.3
Combined(parts, wordOverlap) ==
    [score |-> DAdd(DAdd(DAdd(DAdd(DAdd(DAdd(DZero, parts[1].score),
                                        parts[2].score),
                                   parts[3].score),
                              parts[4].score),
                         parts[5].score),
                    DMul(wordOverlap, overlapWeight)),
     conflicts |-> parts[1].conflicts \o parts[2].conflicts
                   \o parts[3].conflicts \o parts[4].conflicts
                   \o parts[5].conflicts,
     matches |-> parts[1].matches \o parts[2].matches \o parts[3].matches
                 \o parts[4].matches \o parts[5].matches,
     wordOverlap |-> wordOverlap]

\* compareEntities(e1, e2).  An entity record without properties (an empty
\* title) makes the function throw: e1.entities.dates is undefined, and so
\* are e2's properties and e2.words wherever the code comes to read them.
\* The word overlap is intersection.length / union.size, 0 for an empty
\* union.
compareEntities(e1, e2) ==
    IF "dates" \notin DOMAIN e1.entities \/ "dates" \notin DOMAIN e2.entities
    THEN TypeError
    ELSE Combined(EntityParts(e1.entities, e2.entities),
                  setScore(e1.words, e2.words))

-----------------------------------------------------------------------------
(* Hybrid matcher of src/unnamed/part_003 (findMatches, findSimpleMatches) *)
(* and semantic matcher of src/vector-matcher.js.  An embedding vector is  *)
(* [data |-> the sequence of its components], each component a double that *)
(* is a single-precision number, as Array.from of the model's Float32Array *)
(* gives them.  The model is the environment: the vectors it returns for   *)
(* the titles in use are listed below, two components each.  A candidate   *)
(* the loop passes over with `continue` has the outcome Skip, one on which *)
(* compareEntities throws TypeError.                                       *)

Skip == [skip |-> TRUE]

\* the rejection of initEmbedder or of the model call in getEmbedding
EmbedderError == [thrown |-> "Error"]

TitleBtc26 == <<"B", "i", "t", "c", "o", "i", "n", " ", "2", "0", "2", "6">>

TitleGore30 ==
    <<"A", "l", " ", "G", "o", "r", "e", " ", "5", "%", " ",
      "2", "0", "3", "0">>

TitleNoGore30 == <<"n", "o", " ">> \o TitleGore30

TitleNoGore31 ==
    <<"n", "o", " ", "A", "l", " ", "G", "o", "r", "e", " ", "5", "%", " ",
      "2", "0", "3", "1">>

TitleDole31 ==
    <<"B", "o", " ", "D", "o", "l", "e", " ", "2", "0", "3", "1">>

\* the model's vectors, of length 1 to single precision
VecBtc26 ==
    <<DOfRat(Rat(16044131, 16777216)), DOfRat(Rat(4905183, 16777216))>>

VecDole31 ==
    <<DOfRat(Rat(647009, 1048576)), DOfRat(Rat(13202579, 16777216))>>

VecGore30 ==
    <<DOfRat(Rat(-4684131, 134217728)), DOfRat(Rat(4191749, 4194304))>>

VecNoGore30 ==
    <<DOfRat(Rat(2800175, 8388608)), DOfRat(Rat(3953725, 4194304))>>

VecNoGore31 ==
    <<DOfRat(Rat(-14029573, 134217728)), DOfRat(Rat(16685309, 16777216))>>

\* the vector of the empty text and of any other text
VecOther ==
    <<DOfRat(Rat(3938213, 8388608)), DOfRat(Rat(7406701, 8388608))>>

\* output.data of the model for a text
ModelOutput(text) ==
    IF text = TitleBtc26 THEN VecBtc26
    ELSE IF text = TitleDole31 THEN VecDole31
    ELSE IF text = TitleGore30 THEN VecGore30
    ELSE IF text = TitleNoGore30 THEN VecNoGore30
    ELSE IF text = TitleNoGore31 THEN VecNoGore31
    ELSE VecOther

\* getEmbedding(text): Array.from(output.data) of a model call that succeeds
getEmbedding(text) == [data |-> ModelOutput(text)]

\* dotProduct += vec1[i] * vec2[i] from component i on
RECURSIVE DotFrom(_, _, _, _)
DotFrom(vec1, vec2, i, sum) ==
    IF i > Len(vec1) THEN sum
    ELSE DotFrom(vec1, vec2, i + 1, DAdd(sum, DMul(vec1[i], vec2[i])))

\* dotProduct / (Math.sqrt(norm1) * Math.sqrt(norm2))
CosineOf(dotProduct, norm1, norm2) ==
    DDiv(dotProduct, DMul(DSqrt(norm1), DSqrt(norm2)))

\* cosineSimilarity(vec1, vec2): 0 without both vectors or for vectors of
\* different lengths
cosineSimilarity(vec1, vec2) ==
    IF vec1 = Undefined \/ vec2 = Undefined THEN DZero
    ELSE IF Len(vec1.data) # Len(vec2.data) THEN DZero
    ELSE CosineOf(DotFrom(vec1.data, vec2.data, 1, DZero),
                  DotFrom(vec1.data, vec1.data, 1, DZero),
                  DotFrom(vec2.data, vec2.data, 1, DZero))

\* m.title || ''
TitleOrEmpty(m) == IF "title" \in DOMAIN m THEN m.title ELSE <<>>

\* part_003 lines 279-287: { market: m, entities: extractEntities(m.title) }
WithEntities(markets) ==
    [i \in 1..Len(markets) |->
        [market |-> markets[i],
         entities |-> extractEntities(TitleOrEmpty(markets[i]))]]

\* item.embedding = (the vector a getEmbedding call resolved with), for
\* item k of the list
Embedded(items, k) ==
    [i \in 1..Len(items) |->
        IF i # k THEN items[i]
        ELSE IF "entities" \in DOMAIN items[i]
        THEN [market |-> items[i].market,
              entities |-> items[i].entities,
              embedding |-> getEmbedding(TitleOrEmpty(items[i].market))]
        ELSE [market |-> items[i].market,
              embedding |-> getEmbedding(TitleOrEmpty(items[i].market))]]

\* the weights of part_003 lines 334-336 and the step of lines 340-347
embeddingWeight == DOfRat(Rat(6, 10))

entityWeight == DOfRat(Rat(4, 10))

overlapShare == DOfRat(Rat(1, 10))

scoreStep == DOfRat(Rat(1, 10))

\* the cosine below which a candidate is passed over, line 324
embeddingGate == DOfRat(Rat(4, 10))

\* part_003 lines 334-336: (embeddingSim * 0.6)
\* + (Math.max(0, entityComparison.score) * 0.4)
\* + (entityComparison.wordOverlap * 0.1)
hybridScore(embeddingSim, entityComparison) ==
    DAdd(DAdd(DMul(embeddingSim, embeddingWeight),
              DMul(DMax(DZero, entityComparison.score), entityWeight)),
         DMul(entityComparison.wordOverlap, overlapShare))

\* lines 340-342: finalScore += 0.1 for two or more entity matches
Boosted(score, entityComparison) ==
    IF Len(entityComparison.matches) >= 2 THEN DAdd(score, scoreStep)
    ELSE score

\* lines 345-347: finalScore -= 0.1 for a recorded conflict
Penalised(score, entityComparison) ==
    IF Len(entityComparison.conflicts) > 0 THEN DSub(score, scoreStep)
    ELSE score

\* part_003 lines 334-347: the hybrid score, the bonus and the penalty
hybridFinalScore(embeddingSim, entityComparison) ==
    Penalised(Boosted(hybridScore(embeddingSim, entityComparison),
                      entityComparison),
              entityComparison)

\* the slip of scoring a candidate whatever its conflicts
HybridScored_anyConflicts(embeddingSim, entityComparison) ==
    IF entityComparison = TypeError THEN TypeError
    ELSE [score |-> hybridFinalScore(embeddingSim, entityComparison),
          details |-> [embeddingSimilarity |-> embeddingSim,
                       entityScore |-> entityComparison.score,
                       wordOverlap |-> entityComparison.wordOverlap,
                       matches |-> entityComparison.matches,
                       conflicts |-> entityComparison.conflicts]]

\* part_003 lines 330-358: a compared candidate, unless it has hard conflicts
HybridScored(embeddingSim, entityComparison) ==
    IF entityComparison = TypeError THEN TypeError
    ELSE IF Len(entityComparison.conflicts) > 1 THEN Skip
    ELSE [score |-> hybridFinalScore(embeddingSim, entityComparison),
          details |-> [embeddingSimilarity |-> embeddingSim,
                       entityScore |-> entityComparison.score,
                       wordOverlap |-> entityComparison.wordOverlap,
                       matches |-> entityComparison.matches,
                       conflicts |-> entityComparison.conflicts]]

\* part_003 lines 324-358: if (embeddingSim < 0.4) continue, then the entity
\* comparison
HybridGated(embeddingSim, poly, kalshi) ==
    IF DLess(embeddingSim, embeddingGate) THEN Skip
    ELSE HybridScored(embeddingSim,
                      compareEntities(poly.entities, kalshi.entities))

\* part_003 lines 318-358: what the inner loop makes of a candidate that is
\* not used yet
hybridCandidate(poly, kalshi) ==
    IF "embedding" \notin DOMAIN poly \/ "embedding" \notin DOMAIN kalshi
    THEN Skip
    ELSE HybridGated(cosineSimilarity(poly.embedding, kalshi.embedding),
                     poly, kalshi)

\* part_003 lines 409-412: Math.max(0, comparison.score + comparison.wordOverlap)
SimpleScored(comparison) ==
    IF comparison = TypeError THEN TypeError
    ELSE [score |-> DMax(DZero,
                         DAdd(comparison.score, comparison.wordOverlap))]

simpleCandidate(poly, kalshi) ==
    SimpleScored(compareEntities(extractEntities(TitleOrEmpty(poly)),
                                 extractEntities(TitleOrEmpty(kalshi))))

\* vector-matcher.js line 145
semanticCandidate(poly, kalshi) ==
    [score |-> cosineSimilarity(poly.embedding, kalshi.embedding)]

\* vector-matcher.js lines 182-190
tokenize(text) ==
    IF text = <<>> THEN {} ELSE longWords(toLowerCase(text))

\* vector-matcher.js lines 192-196 and 207-210: the Jaccard similarity of
\* the two token sets
tokenCandidate(polyMarket, kalshiMarket) ==
    [score |-> setScore(tokenize(TitleOrEmpty(polyMarket)),
                        tokenize(TitleOrEmpty(kalshiMarket)))]

\* let bestMatch = null; let bestScore = 0; let bestDetails = null
NoBestKalshi == [bestMatch |-> Null, bestScore |-> DZero]

\* the slip of a candidate that replaces an equally good earlier one
ConsiderKalshi_lastOnTie(best, kalshiMarket, outcome, minSimilarity) ==
    IF DLeq(minSimilarity, outcome.score) /\ DLeq(best.bestScore, outcome.score)
    THEN IF "details" \in DOMAIN outcome
         THEN [bestMatch |-> kalshiMarket, bestScore |-> outcome.score,
               bestDetails |-> outcome.details]
         ELSE [bestMatch |-> kalshiMarket, bestScore |-> outcome.score]
    ELSE best

\* if (finalScore >= minSimilarity && finalScore > bestScore)
ConsiderKalshi(best, kalshiMarket, outcome, minSimilarity) ==
    IF DLeq(minSimilarity, outcome.score) /\ DLess(best.bestScore, outcome.score)
    THEN IF "details" \in DOMAIN outcome
         THEN [bestMatch |-> kalshiMarket, bestScore |-> outcome.score,
               bestDetails |-> outcome.details]
         ELSE [bestMatch |-> kalshiMarket, bestScore |-> outcome.score]
    ELSE best

\* the inner loop from position j on: row[j] is the outcome of candidate j
RECURSIVE ScanKalshi(_, _, _, _, _, _)
ScanKalshi(row, kalshiMarkets, j, usedKalshi, minSimilarity, best) ==
    IF j > Len(kalshiMarkets) THEN best
    ELSE IF kalshiMarkets[j].id \in usedKalshi
    THEN ScanKalshi(row, kalshiMarkets, j + 1, usedKalshi, minSimilarity,
                    best)
    ELSE IF row[j] = TypeError THEN TypeError
    ELSE IF row[j] = Skip
    THEN ScanKalshi(row, kalshiMarkets, j + 1, usedKalshi, minSimilarity,
                    best)
    ELSE ScanKalshi(row, kalshiMarkets, j + 1, usedKalshi, minSimilarity,
                    ConsiderKalshi(best, kalshiMarkets[j], row[j],
                                   minSimilarity))

\* bestScore >= high ? 'high' : bestScore >= medium ? 'medium' : 'low'
confidenceOf(bestScore, levels) ==
    IF DLeq(levels.high, bestScore) THEN "high"
    ELSE IF DLeq(levels.medium, bestScore) THEN "medium"
    ELSE "low"

\* the levels of part_003 findMatches and findSimpleMatches, and of
\* vector-matcher.js findSemanticMatches and findSimpleMatches
HybridLevels ==
    [high |-> DOfRat(Rat(80, 100)), medium |-> DOfRat(Rat(65, 100))]

SimpleLevels ==
    [high |-> DOfRat(Rat(60, 100)), medium |-> DOfRat(Rat(40, 100))]

SemanticLevels ==
    [high |-> DOfRat(Rat(85, 100)), medium |-> DOfRat(Rat(70, 100))]

TokenLevels ==
    [high |-> DOfRat(Rat(70, 100)), medium |-> DOfRat(Rat(50, 100))]

\* the pair pushed for a best match
KalshiPair(polyMarket, best, levels) ==
    IF "bestDetails" \in DOMAIN best
    THEN [polymarket |-> polyMarket,
          kalshi |-> best.bestMatch,
          similarity |-> best.bestScore,
          matchConfidence |-> confidenceOf(best.bestScore, levels),
          matchDetails |-> best.bestDetails]
    ELSE [polymarket |-> polyMarket,
          kalshi |-> best.bestMatch,
          similarity |-> best.bestScore,
          matchConfidence |-> confidenceOf(best.bestScore, levels)]

\* if (bestMatch) { usedKalshi.add(...); matches.push(...) }; an exception
\* of the inner loop ends the call
ClaimKalshi(state, polyMarket, best, levels) ==
    IF best = TypeError THEN TypeError
    ELSE IF best.bestMatch = Null THEN state
    ELSE [matches |-> Append(state.matches,
                             KalshiPair(polyMarket, best, levels)),
          usedKalshi |-> state.usedKalshi \cup {best.bestMatch.id}]

\* one iteration of the outer loop
PolyOne(state, polyMarket, row, kalshiMarkets, minSimilarity, levels) ==
    ClaimKalshi(state, polyMarket,
                ScanKalshi(row, kalshiMarkets, 1, state.usedKalshi,
                           minSimilarity, NoBestKalshi),
                levels)

\* const matches = []; const usedKalshi = new Set()
NoKalshiUsed == [matches |-> <<>>, usedKalshi |-> {}]

\* the outer loop from position i on: rows[i][j] is the outcome of
\* candidate j for market i
RECURSIVE PolyFrom(_, _, _, _, _, _, _)
PolyFrom(i, state, rows, polymarkets, kalshiMarkets, minSimilarity, levels) ==
    IF i > Len(polymarkets) \/ state = TypeError THEN state
    ELSE PolyFrom(i + 1,
                  PolyOne(state, polymarkets[i], rows[i], kalshiMarkets,
                          minSimilarity, levels),
                  rows, polymarkets, kalshiMarkets, minSimilarity, levels)

\* stable insertion of a pair into a list sorted by descending similarity
RECURSIVE InsertBySimilarity(_, _)
InsertBySimilarity(x, sorted) ==
    IF sorted = <<>> THEN <<x>>
    ELSE IF DLess(Head(sorted).similarity, x.similarity) THEN <<x>> \o sorted
    ELSE <<Head(sorted)>> \o InsertBySimilarity(x, Tail(sorted))

RECURSIVE SortBySimilarityFrom(_, _, _)
SortBySimilarityFrom(pairs, i, acc) ==
    IF i > Len(pairs) THEN acc
    ELSE SortBySimilarityFrom(pairs, i + 1, InsertBySimilarity(pairs[i], acc))

\* matches.sort((a, b) => b.similarity - a.similarity), which is stable
SortBySimilarity(pairs) == SortBySimilarityFrom(pairs, 1, <<>>)

\* the outcome of a call that returns a list
Returned(list) == [returned |-> list]

\* the sorted list, or the exception that ended the loop
SortedOrThrown(state) ==
    IF state = TypeError THEN TypeError
    ELSE Returned(SortBySimilarity(state.matches))

\* matches.slice(0, n) of a call that came that far
Sliced(outcome, n) ==
    IF "thrown" \in DOMAIN outcome THEN outcome
    ELSE Returned(Take(outcome.returned, n))

\* part_003 lines 314-358: the outcomes of the candidates of one item
HybridRow(poly, kalshiEntities) ==
    [j \in 1..Len(kalshiEntities) |-> hybridCandidate(poly, kalshiEntities[j])]

MarketsOf(items) == [i \in 1..Len(items) |-> items[i].market]

\* part_003 findSimpleMatches(polymarkets, kalshiMarkets, minSimilarity)
findSimpleMatches(polymarkets, kalshiMarkets, minSimilarity) ==
    SortedOrThrown(
        PolyFrom(1, NoKalshiUsed,
                 [i \in 1..Len(Take(polymarkets, 100)) |->
                     [j \in 1..Len(Take(kalshiMarkets, 100)) |->
                         simpleCandidate(polymarkets[i], kalshiMarkets[j])]],
                 Take(polymarkets, 100), Take(kalshiMarkets, 100),
                 minSimilarity, SimpleLevels))

\* vector-matcher.js findSemanticMatches from line 134 on: the loops, the
\* sort and the slice, over the lists generateEmbeddings resolved with
findSemanticMatches(polyEmbeddings, kalshiEmbeddings, minSimilarity) ==
    Sliced(SortedOrThrown(
               PolyFrom(1, NoKalshiUsed,
                        [i \in 1..Len(polyEmbeddings) |->
                            [j \in 1..Len(kalshiEmbeddings) |->
                                semanticCandidate(polyEmbeddings[i],
                                                  kalshiEmbeddings[j])]],
                        MarketsOf(polyEmbeddings),
                        MarketsOf(kalshiEmbeddings),
                        minSimilarity, SemanticLevels)),
           50)

\* vector-matcher.js findSimpleMatches
vectorFindSimpleMatches(polymarketMarkets, kalshiMarkets, minSimilarity) ==
    SortedOrThrown(
        PolyFrom(1, NoKalshiUsed,
                 [i \in 1..Len(Take(polymarketMarkets, 100)) |->
                     [j \in 1..Len(Take(kalshiMarkets, 100)) |->
                         tokenCandidate(polymarketMarkets[i],
                                        kalshiMarkets[j])]],
                 Take(polymarketMarkets, 100), Take(kalshiMarkets, 100),
                 minSimilarity, TokenLevels))

-----------------------------------------------------------------------------
(* Inputs of the arbitrage calculator *)

\* largest investment, in whole dollars
MaxInvestment == 2

Investments == {DOfInt(i) : i \in 0..MaxInvestment}

\* prices in whole cents
PriceGrid == {0, 2, 25, 30, 40, 50, 70, 75, 100}

\* the number a price of p cents is, as the literal p/100 is read
Price(p) == DOfRat(Cents(p))

Prices == {Price(p) : p \in PriceGrid}

Platforms == {"kalshi", "polymarket"}

\* market records as calculateArbitrage reads them
ArbMarkets ==
    {[yes_price |-> y, price |-> p] :
        y \in {Undefined} \cup Prices,
        p \in {Undefined, Price(40)}}

CheckInputs ==
    {[op |-> "check", platform1 |-> a, price1 |-> p1,
      platform2 |-> b, price2 |-> p2, investment |-> i] :
        a \in Platforms, p1 \in Prices, b \in Platforms, p2 \in Prices,
        i \in Investments}

\* contract counts and prices in cents of the single cost calls
FeeContracts == {0, 1, 4, 16, 100}

FeeCents == PriceGrid

KalshiCostInputs ==
    {[op |-> "kalshiCost", contracts |-> c, cents |-> p, isMaker |-> m] :
        c \in FeeContracts, p \in FeeCents, m \in BOOLEAN}

PolymarketCostInputs ==
    {[op |-> "polymarketCost", contracts |-> c, cents |-> p] :
        c \in FeeContracts, p \in FeeCents}

\* matched pairs as findArbitrageOpportunities reads them: the first two
\* are profitable with Kalshi yes, the third is not, the fourth is with
\* Kalshi no
MatchedPairs ==
    { [kalshi |-> [id |-> "k1", yes_price |-> Price(40),
                  price |-> Undefined],
       polymarket |-> [id |-> "p1", yes_price |-> Price(75),
                  price |-> Undefined],
       similarity |-> DOfRat(Rat(9, 10)), matchConfidence |-> "high"],
      [kalshi |-> [id |-> "k2", yes_price |-> Price(25),
                  price |-> Undefined],
       polymarket |-> [id |-> "p2", yes_price |-> Price(75),
                  price |-> Undefined],
       similarity |-> DOfRat(Rat(6, 10)), matchConfidence |-> "medium"],
      [kalshi |-> [id |-> "k3", yes_price |-> Price(50),
                  price |-> Undefined],
       polymarket |-> [id |-> "p3", yes_price |-> Price(50),
                  price |-> Undefined],
       similarity |-> DOfInt(1), matchConfidence |-> "high"],
      [kalshi |-> [id |-> "k4", yes_price |-> Price(75),
                  price |-> Undefined],
       polymarket |-> [id |-> "p4", yes_price |-> Undefined,
                      price |-> Price(2)],
       similarity |-> DOfRat(Rat(9, 10)), matchConfidence |-> "high"] }

\* longest list of matched pairs
MaxPairs == 3

\* lists of matched pairs, as the matchers return them: no market twice
MatchedLists ==
    {l \in UNION {[1..n -> MatchedPairs] : n \in 0..MaxPairs} :
        \A a, b \in 1..Len(l) : l[a] = l[b] => a = b}

FindInputs ==
    {[op |-> "find", matchedMarkets |-> l, investment |-> i] :
        l \in MatchedLists, i \in Investments}

\* a check as calculateArbitrage makes it for a Kalshi yes price of 0.40, a
\* Polymarket yes price of 0.76 and an investment of 40: both fee amounts
\* of side 1 are whole cents (1.05 before and 1.00 after the rescale)
WholeCentCheckInputs ==
    {[op |-> "check", platform1 |-> "kalshi", price1 |-> Price(40),
      platform2 |-> "polymarket", price2 |-> Price(24),
      investment |-> DOfInt(40)]}

CalculateInputs ==
    {[op |-> "calculate", kalshiMarket |-> k, polyMarket |-> m,
      investment |-> i] :
        k \in ArbMarkets, m \in ArbMarkets, i \in Investments}

\* the calculator is not in use
ArbIdle ==
    /\ arbPc = "off"
    /\ arbIn = Null
    /\ arbOut = [result |-> Null]

\* the similarity function is not in use
SimIdle ==
    /\ simPc = "off"
    /\ simIn = Null
    /\ simOut = Null

\* the greedy matcher is not in use
MatchIdle ==
    /\ matchPc = "off"
    /\ matchIn = Null
    /\ matchI = 0
    /\ matches = <<>>
    /\ usedPolyMarkets = {}
    /\ matchRuns = <<>>

\* no hybrid or semantic matching call is under way
HybIdle == hybrid = [pc |-> "off"]

\* the backend is not running
DbIdle ==
    /\ dbIndex = [kalshi |-> <<>>, polymarket |-> <<>>]
    /\ dbMeta = Null
    /\ refresh = <<>>
    /\ requests = <<>>

\* no stats or health request was answered
ProbeIdle == probe = <<>>

\* the module of the embedding model is not loaded
EmbIdle == loader = [pc |-> "off"]

ArbInit ==
    /\ arbPc = "ready"
    /\ arbIn \in CheckInputs \cup CalculateInputs \cup KalshiCostInputs
                \cup PolymarketCostInputs \cup FindInputs
                \cup WholeCentCheckInputs
    /\ arbOut = [result |-> Null]
    /\ SimIdle
    /\ MatchIdle
    /\ HybIdle
    /\ DbIdle
    /\ ProbeIdle
    /\ EmbIdle

\* one call of checkArbitrageOpportunity
ArbCheck ==
    /\ arbPc = "ready"
    /\ arbIn.op = "check"
    /\ arbOut' = [result |->
                     checkArbitrageOpportunity(
                         arbIn.platform1, "yes", arbIn.price1,
                         arbIn.platform2, "no", arbIn.price2,
                         arbIn.investment)]
    /\ arbPc' = "checked"
    /\ UNCHANGED <<arbIn, notArb>>

\* one call of calculateArbitrage
ArbCalculate ==
    /\ arbPc = "ready"
    /\ arbIn.op = "calculate"
    /\ arbOut' = [result |->
                     calculateArbitrage(arbIn.kalshiMarket, arbIn.polyMarket,
                                        arbIn.investment)]
    /\ arbPc' = "calculated"
    /\ UNCHANGED <<arbIn, notArb>>

\* one call of calculateKalshiCost
ArbKalshiCost ==
    /\ arbPc = "ready"
    /\ arbIn.op = "kalshiCost"
    /\ arbOut' = [result |-> Null,
                  cost |->
                     calculateKalshiCost(DOfInt(arbIn.contracts),
                                         Price(arbIn.cents), arbIn.isMaker)]
    /\ arbPc' = "costed"
    /\ UNCHANGED <<arbIn, notArb>>

\* one call of calculatePolymarketCost
ArbPolymarketCost ==
    /\ arbPc = "ready"
    /\ arbIn.op = "polymarketCost"
    /\ arbOut' = [result |-> Null,
                  cost |->
                     calculatePolymarketCost(DOfInt(arbIn.contracts),
                                             Price(arbIn.cents))]
    /\ arbPc' = "costed"
    /\ UNCHANGED <<arbIn, notArb>>

\* the results of calculateArbitrage so far and the opportunities pushed
FindState ==
    IF "arbs" \in DOMAIN arbOut THEN arbOut
    ELSE [result |-> Null, arbs |-> <<>>, opportunities |-> <<>>]

\* the iteration of findArbitrageOpportunities for the next pair, given what
\* calculateArbitrage returned
FindStep(st, arb, match) ==
    [result |-> Null,
     arbs |-> Append(st.arbs, arb),
     opportunities |-> PushIfArb(st.opportunities, arb, match)]

\* lines 277-291: one iteration of the loop
ArbFindIterate ==
    /\ arbPc = "ready"
    /\ arbIn.op = "find"
    /\ Len(FindState.arbs) < Len(arbIn.matchedMarkets)
    /\ arbOut' = FindStep(FindState,
                           calculateArbitrage(
                               arbIn.matchedMarkets[Len(FindState.arbs) + 1]
                                   .kalshi,
                               arbIn.matchedMarkets[Len(FindState.arbs) + 1]
                                   .polymarket,
                               arbIn.investment),
                           arbIn.matchedMarkets[Len(FindState.arbs) + 1])
    /\ UNCHANGED <<arbPc, arbIn, notArb>>

\* lines 293-296: sort and return
ArbFindReturn ==
    /\ arbPc = "ready"
    /\ arbIn.op = "find"
    /\ Len(FindState.arbs) = Len(arbIn.matchedMarkets)
    /\ arbOut' = [result |-> Null,
                  arbs |-> FindState.arbs,
                  opportunities |->
                      SortByProfitPercent(FindState.opportunities)]
    /\ arbPc' = "found"
    /\ UNCHANGED <<arbIn, notArb>>

ArbNext ==
    \/ ArbCheck
    \/ ArbCalculate
    \/ ArbKalshiCost
    \/ ArbPolymarketCost
    \/ ArbFindIterate
    \/ ArbFindReturn

SpecArb == ArbInit /\ [][ArbNext]_vars

-----------------------------------------------------------------------------
(* Inputs of calculateSimilarity: titles put together from a few pieces    *)
(* that bring years, a year glued to letters, a capitalised name, a stop   *)
(* word, a number and punctuation.                                         *)

TitlePieces ==
    { <<"2", "0", "2", "6", " ">>,
      <<"2", "0", "3", "0", " ">>,
      <<"F", "Y", "2", "0", "2", "6", " ">>,
      <<"W", "i", "n", " ">>,
      <<"t", "h", "e", " ">>,
      <<"7", " ">>,
      <<"!">> }

\* most pieces in a title
MaxPieces == 2

RECURSIVE TitlesOf(_)
TitlesOf(k) ==
    IF k = 0 THEN {<<>>}
    ELSE TitlesOf(k - 1) \cup {t \o c : t \in TitlesOf(k - 1), c \in TitlePieces}

Titles == TitlesOf(MaxPieces)

SimInit ==
    /\ simPc = "ready"
    /\ simIn \in [str1 : Titles, str2 : Titles]
    /\ simOut = Null
    /\ ArbIdle
    /\ MatchIdle
    /\ HybIdle
    /\ DbIdle
    /\ ProbeIdle
    /\ EmbIdle

\* one call of calculateSimilarity
SimCalculate ==
    /\ simPc = "ready"
    /\ simOut' = calculateSimilarity(simIn.str1, simIn.str2)
    /\ simPc' = "done"
    /\ UNCHANGED <<simIn, notSim>>

SimNext == SimCalculate

SpecSim == SimInit /\ [][SimNext]_vars

-----------------------------------------------------------------------------
(* Inputs and steps of findMatchingMarkets *)

\* titles with similarities 1, 0.85, 0.55 and 0 among them; TitleD scores
\* 0.6 * (2/3) = 0.39999999999999997 against TitleE and 0.25 + 0.15 = 0.4
\* against TitleF
TitleA == <<"r", "a", "i", "n", " ", "W", "i", "n", " ">>

TitleB == <<"r", "a", "i", "n", " ">>

TitleC == <<"W", "i", "n", " ", "7", " ">>

TitleD ==
    <<"r", "a", "i", "n", " ", "s", "n", "o", "w", " ", "h", "a", "i", "l",
      " ", "A", "l", " ", "7", " ">>

TitleE == <<"s", "n", "o", "w", " ", "r", "a", "i", "n", " ">>

TitleF == <<"7", " ", "A", "l", " ">>

KalshiMarketSet ==
    { [id |-> "k1", title |-> TitleA], [id |-> "k1", title |-> TitleB],
      [id |-> "k2", title |-> TitleA], [id |-> "k2", title |-> TitleC],
      [id |-> "k1", title |-> TitleD] }

\* the last one has a question and no title
PolyMarketSet ==
    { [id |-> "p1", title |-> TitleA], [id |-> "p1", title |-> TitleC],
      [id |-> "p2", title |-> TitleA], [id |-> "p2", title |-> TitleB],
      [id |-> "p2", question |-> TitleB],
      [id |-> "p1", title |-> TitleE], [id |-> "p2", title |-> TitleF] }

\* longest market list of either venue
MaxMarkets == 2

ListsOf(markets) ==
    UNION {[1..n -> markets] : n \in 0..MaxMarkets}

\* the thresholds of the calls; 0.4 is the default of findMatchingMarkets
MinSimilarities == {RInt(0), Rat(4, 10), Rat(85, 100)}

MatchInit ==
    /\ matchPc = "loop"
    /\ matchIn \in [kalshiMarkets : ListsOf(KalshiMarketSet),
                    polymarketMarkets : ListsOf(PolyMarketSet),
                    minSimilarity : MinSimilarities]
    /\ matchI = 1
    /\ matches = <<>>
    /\ usedPolyMarkets = {}
    /\ matchRuns = <<>>
    /\ ArbIdle
    /\ SimIdle
    /\ HybIdle
    /\ DbIdle
    /\ ProbeIdle
    /\ EmbIdle

\* the state MatchOne works on
MatchState == [matches |-> matches, used |-> usedPolyMarkets]

\* one iteration of for (const kalshiMarket of kalshiMarkets)
MatchIterate ==
    /\ matchPc = "loop"
    /\ matchI <= Len(matchIn.kalshiMarkets)
    /\ LET next == MatchOne(MatchState, matchIn.kalshiMarkets[matchI],
                            matchIn.polymarketMarkets, matchIn.minSimilarity)
       IN  /\ matches' = next.matches
           /\ usedPolyMarkets' = next.used
    /\ matchI' = matchI + 1
    /\ UNCHANGED <<matchPc, matchIn, matchRuns, notMatch>>

\* return matches
MatchReturn ==
    /\ matchPc = "loop"
    /\ matchI > Len(matchIn.kalshiMarkets)
    /\ matchPc' = "done"
    /\ matchRuns' = Append(matchRuns, matches)
    /\ UNCHANGED <<matchIn, matchI, matches, usedPolyMarkets, notMatch>>

\* calls of findMatchingMarkets in one run
MaxRuns == 2

\* the slip of a set of used ids that outlives the call
NewPass_keepUsed == [matches |-> <<>>, used |-> usedPolyMarkets]

\* lines 100-101: const matches = []; const usedPolyMarkets = new Set()
NewPass == [matches |-> <<>>, used |-> {}]

\* findMatchingMarkets is called again with the same arguments
MatchAgain ==
    /\ matchPc = "done"
    /\ Len(matchRuns) < MaxRuns
    /\ matchPc' = "loop"
    /\ matchI' = 1
    /\ matches' = NewPass.matches
    /\ usedPolyMarkets' = NewPass.used
    /\ UNCHANGED <<matchIn, matchRuns, notMatch>>

MatchNext ==
    \/ MatchIterate
    \/ MatchReturn
    \/ MatchAgain

SpecMatch == MatchInit /\ [][MatchNext]_vars

-----------------------------------------------------------------------------
(* Inputs and steps of the hybrid and semantic matchers.  A call takes a   *)
(* step up to each await of the embedder (initEmbedder, and getEmbedding   *)
(* for one market at a time), and the hybrid findMatches a step per        *)
(* iteration of its outer loop.                                            *)

\* the markets of either venue in the order of the lists; the last
\* Polymarket one has no title
HybridPolyMarkets ==
    << [id |-> "hp1", title |-> TitleBtc26],
       [id |-> "hp2", title |-> TitleGore30],
       [id |-> "hp3"] >>

HybridKalshiMarkets ==
    << [id |-> "hk1", title |-> TitleBtc26],
       [id |-> "hk2", title |-> TitleNoGore30],
       [id |-> "hk3", title |-> TitleNoGore31],
       [id |-> "hk4", title |-> TitleDole31],
       [id |-> "hk5", title |-> TitleDole31] >>

\* longest market list of either venue in a hybrid or semantic call
MaxHybridMarkets == 3

\* the markets at the chosen positions, in the order of the list
RECURSIVE PickedFrom(_, _, _)
PickedFrom(markets, chosen, i) ==
    IF i > Len(markets) THEN <<>>
    ELSE (IF i \in chosen THEN <<markets[i]>> ELSE <<>>)
             \o PickedFrom(markets, chosen, i + 1)

\* the lists of at most MaxHybridMarkets of the markets
HybridListsOf(markets) ==
    { PickedFrom(markets, chosen, 1) :
        chosen \in {c \in SUBSET (1..Len(markets)) :
                       Cardinality(c) <= MaxHybridMarkets} }

\* const { minSimilarity = 0.55, maxResults = 100 } = options
HybridDefaults ==
    [minSimilarity |-> DOfRat(Rat(55, 100)), maxResults |-> 100]

HybridOptions ==
    { HybridDefaults,
      [minSimilarity |-> DZero, maxResults |-> 100],
      [minSimilarity |-> DOfRat(Rat(55, 100)), maxResults |-> 1] }

\* const { minSimilarity = 0.7, useSemanticMatching = true } = options
VectorOptions ==
    { [minSimilarity |-> DOfRat(Rat(70, 100)), useSemanticMatching |-> TRUE],
      [minSimilarity |-> DOfRat(Rat(40, 100)), useSemanticMatching |-> FALSE] }

\* what the embedder does: the model loads and answers, or its load
\* rejects, or every call of the loaded model rejects
Embedders == {"ok", "loadFails", "callFails"}

\* the calls made: the matcher, its options and what the embedder does
HybridCalls ==
    [op : {"findMatches"}, options : HybridOptions, embedder : {"ok"}]
    \cup [op : {"findMatches"}, options : {HybridDefaults},
          embedder : Embedders \ {"ok"}]
    \cup [op : {"findSimpleMatches"},
          options : {[minSimilarity |-> DOfRat(Rat(35, 100))],
                     [minSimilarity |-> DZero]},
          embedder : {"ok"}]
    \cup [op : {"vectorFindMatches"}, options : VectorOptions,
          embedder : Embedders]

\* the locals of a call that has not set them yet.  polyEntities and
\* kalshiEntities are the item lists of either matcher (polyEmbeddings and
\* kalshiEmbeddings in vector-matcher.js); `stage` is the list being
\* embedded and k the position of the item whose getEmbedding call is
\* awaited.
HybridCall(call, polymarkets, kalshiMarkets) ==
    [pc |-> IF call.op = "findMatches" THEN "extract" ELSE "call",
     op |-> call.op,
     options |-> call.options,
     embedder |-> call.embedder,
     polymarkets |-> polymarkets,
     kalshiMarkets |-> kalshiMarkets,
     polyEntities |-> <<>>,
     kalshiEntities |-> <<>>,
     stage |-> "poly",
     k |-> 1,
     i |-> 1,
     state |-> NoKalshiUsed,
     result |-> Undefined]

HybInit ==
    /\ \E call \in HybridCalls :
       \E polymarkets \in HybridListsOf(HybridPolyMarkets) :
       \E kalshiMarkets \in HybridListsOf(HybridKalshiMarkets) :
           hybrid = HybridCall(call, polymarkets, kalshiMarkets)
    /\ ArbIdle
    /\ SimIdle
    /\ MatchIdle
    /\ DbIdle
    /\ ProbeIdle
    /\ EmbIdle

\* part_003 lines 274-291: the slices and the entities of both lists, up to
\* await initEmbedder()
HybExtract ==
    /\ hybrid.pc = "extract"
    /\ hybrid' = [hybrid EXCEPT
           !.pc = "init",
           !.polyEntities = WithEntities(Take(hybrid.polymarkets, 150)),
           !.kalshiEntities = WithEntities(Take(hybrid.kalshiMarkets, 150))]
    /\ UNCHANGED notHyb

\* polySubset.map / the results of generateEmbeddings before any embedding
ItemsOf(markets) == [i \in 1..Len(markets) |-> [market |-> markets[i]]]

\* the call of vector-matcher.js findMatches: findSimpleMatches when the
\* semantic matching is switched off, else findSemanticMatches up to the
\* await initEmbedder() of generateEmbeddings(polySubset)
HybVector ==
    /\ hybrid.pc = "call"
    /\ hybrid.op = "vectorFindMatches"
    /\ hybrid' =
           IF ~hybrid.options.useSemanticMatching
           THEN [hybrid EXCEPT
                    !.pc = "done",
                    !.result = vectorFindSimpleMatches(
                                   hybrid.polymarkets, hybrid.kalshiMarkets,
                                   hybrid.options.minSimilarity)]
           ELSE [hybrid EXCEPT
                    !.pc = "init",
                    !.polyEntities = ItemsOf(Take(hybrid.polymarkets, 200)),
                    !.kalshiEntities = ItemsOf(Take(hybrid.kalshiMarkets, 200))]
    /\ UNCHANGED notHyb

\* a rejection of the embedder: findMatches of part_003 has no handler for
\* it and rejects; findMatches of vector-matcher.js catches it and returns
\* what findSimpleMatches returns
Rejected(h) ==
    IF h.op = "findMatches"
    THEN [h EXCEPT !.pc = "done", !.result = EmbedderError]
    ELSE [h EXCEPT !.pc = "done",
                   !.result = vectorFindSimpleMatches(
                                  h.polymarkets, h.kalshiMarkets,
                                  h.options.minSimilarity)]

\* where a call stands after an await of the embedder resolved, the next
\* item to embed being item k of list `stage`: at the getEmbedding call of
\* that item; with the list done, at the first item of the Kalshi list in
\* part_003 and at the await initEmbedder() of generateEmbeddings(
\* kalshiSubset) in vector-matcher.js; with both lists done, in the loop
\* of part_003 and at the return of findSemanticMatches
Resumed(h, stage, k) ==
    IF stage = "poly" /\ k <= Len(h.polyEntities)
    THEN [h EXCEPT !.pc = "embed", !.stage = "poly", !.k = k]
    ELSE IF stage = "poly" /\ h.op = "vectorFindMatches"
    THEN [h EXCEPT !.pc = "init", !.stage = "kalshi", !.k = 1]
    ELSE IF stage = "poly" /\ Len(h.kalshiEntities) > 0
    THEN [h EXCEPT !.pc = "embed", !.stage = "kalshi", !.k = 1]
    ELSE IF stage = "kalshi" /\ k <= Len(h.kalshiEntities)
    THEN [h EXCEPT !.pc = "embed", !.stage = "kalshi", !.k = k]
    ELSE IF h.op = "findMatches"
    THEN [h EXCEPT !.pc = "loop", !.stage = "kalshi", !.k = k]
    ELSE [h EXCEPT !.pc = "done", !.stage = "kalshi", !.k = k,
                   !.result = findSemanticMatches(h.polyEntities,
                                                  h.kalshiEntities,
                                                  h.options.minSimilarity)]

\* await initEmbedder() settles: part_003 line 291, vector-matcher.js
\* line 62
HybLoaded ==
    /\ hybrid.pc = "init"
    /\ hybrid' = IF hybrid.embedder = "loadFails" THEN Rejected(hybrid)
                 ELSE Resumed(hybrid, hybrid.stage, 1)
    /\ UNCHANGED notHyb

\* the item lists with the embedding of item k of list `stage` set
WithEmbedding(h, stage, k) ==
    IF stage = "poly"
    THEN [h EXCEPT !.polyEntities = Embedded(h.polyEntities, k)]
    ELSE [h EXCEPT !.kalshiEntities = Embedded(h.kalshiEntities, k)]

\* an await getEmbedding(...) settles: part_003 lines 294-301,
\* vector-matcher.js line 66
HybEmbedded ==
    /\ hybrid.pc = "embed"
    /\ hybrid' = IF hybrid.embedder = "callFails" THEN Rejected(hybrid)
                 ELSE Resumed(WithEmbedding(hybrid, hybrid.stage, hybrid.k),
                              hybrid.stage, hybrid.k + 1)
    /\ UNCHANGED notHyb

\* the state after iteration i of the outer loop of findMatches
HybridStep(h) ==
    PolyOne(h.state, h.polyEntities[h.i].market,
            HybridRow(h.polyEntities[h.i], h.kalshiEntities),
            MarketsOf(h.kalshiEntities), h.options.minSimilarity,
            HybridLevels)

\* the call after an iteration that left `state`
Iterated(h, state) ==
    IF state = TypeError
    THEN [h EXCEPT !.pc = "done", !.result = TypeError]
    ELSE [h EXCEPT !.i = h.i + 1, !.state = state]

\* part_003 lines 309-373: one iteration of the outer loop; an exception of
\* compareEntities leaves findMatches
HybIterate ==
    /\ hybrid.pc = "loop"
    /\ hybrid.i <= Len(hybrid.polyEntities)
    /\ hybrid' = Iterated(hybrid, HybridStep(hybrid))
    /\ UNCHANGED notHyb

\* part_003 lines 375-389: sort, slice and return
HybReturn ==
    /\ hybrid.pc = "loop"
    /\ hybrid.i > Len(hybrid.polyEntities)
    /\ hybrid' = [hybrid EXCEPT
           !.pc = "done",
           !.result = Sliced(SortedOrThrown(hybrid.state),
                             hybrid.options.maxResults)]
    /\ UNCHANGED notHyb

\* a call of part_003 findSimpleMatches
HybSimple ==
    /\ hybrid.pc = "call"
    /\ hybrid.op = "findSimpleMatches"
    /\ hybrid' = [hybrid EXCEPT
           !.pc = "done",
           !.result = findSimpleMatches(hybrid.polymarkets,
                                        hybrid.kalshiMarkets,
                                        hybrid.options.minSimilarity)]
    /\ UNCHANGED notHyb

HybNext ==
    \/ HybExtract
    \/ HybVector
    \/ HybLoaded
    \/ HybEmbedded
    \/ HybIterate
    \/ HybReturn
    \/ HybSimple

SpecHybrid == HybInit /\ [][HybNext]_vars

\* either greedy matcher at work: a pass of findMatchingMarkets or a call of
\* a hybrid or semantic matcher
MatchersInit == MatchInit \/ HybInit

MatchersNext == MatchNext \/ HybNext

SpecMatchers == MatchersInit /\ [][MatchersNext]_vars

-----------------------------------------------------------------------------
(* The backend at work: POST /api/system/refresh handlers and concurrent   *)
(* opportunity requests.  Every await of a handler ends a step; between    *)
(* two steps of one handler the event loop may run steps of the others.    *)
(* The vector index of a venue is the list of its items; a listItems, a    *)
(* deleteItem and an insertItem take effect on it when they are awaited.   *)
(* src/ holds the vector module of Polymarket (part_000) and the indexer   *)
(* of both venues of the earlier server (part_003 lines 674-729), the same *)
(* routine step for step; the Kalshi index is rebuilt by that routine.     *)

K1 == [id |-> "K1", volume24h |-> 30]

K2 == [id |-> "K2", volume24h |-> 5]

P1 == [id |-> "P1", volume24h |-> 10]

P2 == [id |-> "P2", volume24h |-> 20]

\* a market as the Kalshi API lists it, with a bid and an ask in cents
KalshiListed(market) ==
    [ticker |-> market.id, volume_24h |-> market.volume24h,
     yes_bid |-> 40, yes_ask |-> 60]

\* a listed market that has no bid and no ask yet
KalshiUnpriced(market) ==
    [ticker |-> market.id, volume_24h |-> market.volume24h]

\* if (m.yes_bid === undefined || m.yes_ask === undefined) continue
kalshiKept(m) == "yes_bid" \in DOMAIN m /\ "yes_ask" \in DOMAIN m

\* transformMarket(m): the id and the volume, which indexMarkets reads
transformMarket(m) ==
    [id |-> m.ticker,
     volume24h |-> IF "volume_24h" \in DOMAIN m THEN m.volume_24h ELSE 0]

\* a market as the Gamma API lists it, outcomePrices being [yes, no]
PolyListed(market, yes) ==
    [id |-> market.id, volume24hr |-> market.volume24h,
     outcomePrices |-> <<yes, DSub(DOfInt(1), yes)>>]

\* let yesPrice = 0.5; if (prices && prices.length >= 2) yesPrice =
\* parseFloat(prices[0])
yesPriceOf(m) ==
    IF "outcomePrices" \in DOMAIN m /\ Len(m.outcomePrices) >= 2
    THEN m.outcomePrices[1]
    ELSE DOfRat(Rat(1, 2))

\* Math.abs(x)
DAbs(x) == IF IsDNaN(x) THEN x ELSE [x EXCEPT !.sign = 1]

\* if (Math.abs(yesPrice - 0.5) < 0.01) continue
polyKept(m) ==
    ~DLess(DAbs(DSub(yesPriceOf(m), DOfRat(Rat(1, 2)))), DOfRat(Rat(1, 100)))

\* the record allMarkets.push(...) builds: the id and the volume
polyMarket(m) ==
    [id |-> m.id,
     volume24h |-> IF "volume24hr" \in DOMAIN m THEN m.volume24hr ELSE 0]

\* the markets of a page that the loop pushes to allMarkets
KeptOf(venue, listed) ==
    IF venue = "kalshi"
    THEN [i \in 1..Len(SelectSeq(listed, kalshiKept)) |->
             transformMarket(SelectSeq(listed, kalshiKept)[i])]
    ELSE [i \in 1..Len(SelectSeq(listed, polyKept)) |->
             polyMarket(SelectSeq(listed, polyKept)[i])]

\* the pages a venue may serve, each with the markets as the venue lists
\* them.  `more` says that the code asks for another page after this one:
\* the page came with a cursor (Kalshi), or it is as long as the page limit
\* (Polymarket), the markets not shown being markets the loop skips.
KalshiVenue ==
    { << [markets |-> <<KalshiListed(K1)>>, more |-> TRUE],
         [markets |-> <<KalshiListed(K2)>>, more |-> FALSE] >>,
      << [markets |-> <<KalshiListed(K2)>>, more |-> FALSE] >>,
      << [markets |-> <<KalshiUnpriced(K1)>>, more |-> TRUE],
         [markets |-> <<KalshiListed(K2)>>, more |-> FALSE] >> }

PolyVenue ==
    { << [markets |-> <<PolyListed(P1, DOfRat(Rat(62, 100)))>>,
          more |-> TRUE],
         [markets |-> <<PolyListed(P2, DOfRat(Rat(51, 100)))>>,
          more |-> TRUE] >>,
      << [markets |-> <<PolyListed(P1, DOfRat(Rat(62, 100)))>>,
          more |-> FALSE] >>,
      << [markets |-> <<PolyListed(P2, DOfRat(Rat(505, 1000)))>>,
          more |-> TRUE],
         [markets |-> <<PolyListed(P1, DOfRat(Rat(62, 100)))>>,
          more |-> FALSE] >> }

\* the last page request that may fail
MaxPages == 2

\* the number of the page request that fails, 0 for none
FailingRequests == 0..MaxPages

\* how the failing request fails: its response is not ok, or fetch(url)
\* rejects
Failures == [at : FailingRequests, kind : {"notOk", "rejects"}]

\* what a rejected fetch(url) throws
FetchError == [thrown |-> "FetchError"]

\* the loop of fetchAllMarkets from request `page` on: a response that is
\* not ok and an empty page end it, and so does a page without a cursor
\* (Kalshi) or shorter than the limit (Polymarket) once its markets are
\* pushed; a rejected request leaves the function with its error
RECURSIVE FetchFrom(_, _, _, _, _)
FetchFrom(venue, pages, page, failure, allMarkets) ==
    IF page = failure.at
    THEN IF failure.kind = "rejects" THEN FetchError
         ELSE [returned |-> allMarkets]
    ELSE IF page > Len(pages) THEN [returned |-> allMarkets]
    ELSE IF pages[page].markets = <<>> THEN [returned |-> allMarkets]
    ELSE IF ~pages[page].more
    THEN [returned |-> allMarkets \o KeptOf(venue, pages[page].markets)]
    ELSE FetchFrom(venue, pages, page + 1, failure,
                   allMarkets \o KeptOf(venue, pages[page].markets))

\* fetchAllMarkets of either venue
fetchAllMarkets(venue, pages, failure) ==
    FetchFrom(venue, pages, 1, failure, <<>>)

\* the request numbered failAt is made
RequestMade(pages, failAt) ==
    /\ failAt >= 1
    /\ \A n \in 1..(failAt - 1) :
           /\ n <= Len(pages)
           /\ pages[n].markets # <<>>
           /\ pages[n].more

\* what a call of fetchAllMarkets comes to: its result, and the venue if
\* one of its page requests failed
FetchOf(venue, pages, failure) ==
    [result |-> fetchAllMarkets(venue, pages, failure),
     failed |-> IF RequestMade(pages, failure.at) THEN {venue} ELSE {}]

\* the outcomes of fetchAllKalshi() and of fetchAllPolymarket()
KalshiFetches ==
    {FetchOf("kalshi", pages, failure) :
        pages \in KalshiVenue, failure \in Failures}

PolyFetches ==
    {FetchOf("polymarket", pages, failure) :
        pages \in PolyVenue, failure \in Failures}

\* POST /api/system/refresh requests of one run under SpecSystem; the
\* route has no lock, so that their handlers may overlap
MaxRefreshes == 2

\* concurrent GET /api/opportunities requests
MaxRequests == 2

RequestIds == 1..MaxRequests

\* parseInt(req.query.limit) || 100 for the query strings the model sends
Limits == {1, 100}

\* parseFloat(req.query.minSimilarity) || 0.75
defaultMinSimilarity == Rat(75, 100)

NewRequest ==
    [pc |-> "new", arrivedWhileIndexing |-> FALSE,
     minSimilarity |-> defaultMinSimilarity, maxResults |-> 100,
     polyItems |-> <<>>, pos |-> 0, matches |-> <<>>, usedKalshi |-> {},
     status |-> 0, dbStats |-> Null]

\* the locals of a refresh handler whose request has not arrived: `venue`
\* is the venue of the running indexMarkets call, `existing` the listed
\* items it has not deleted yet, `pending` the part of topMarkets from the
\* batch under way on and `batch` the markets of that batch not inserted
\* yet
NewRefresh ==
    [pc |-> "new", venue |-> "kalshi",
     kalshiMarkets |-> <<>>, polyMarkets |-> <<>>,
     failed |-> {}, existing |-> <<>>, pending |-> <<>>, batch |-> <<>>,
     status |-> 0]

\* the state a finished refresh of <<K1, K2>> and <<P1, P2>> leaves behind,
\* and one refresh request to come
DbInit ==
    /\ dbIndex = [kalshi |-> <<K1, K2>>, polymarket |-> <<P2, P1>>]
    /\ dbMeta = [lastUpdate |-> 1, kalshiCount |-> 2, polymarketCount |-> 2]
    /\ refresh = <<NewRefresh>>
    /\ requests = [r \in RequestIds |-> NewRequest]
    /\ ArbIdle
    /\ SimIdle
    /\ MatchIdle
    /\ HybIdle
    /\ ProbeIdle
    /\ EmbIdle

\* the refresh handlers, numbered as their requests arrive; those of the
\* run are the ones refresh holds
RefreshIds == 1..MaxRefreshes

Handlers == DOMAIN refresh

\* an indexKalshi or indexPolymarket call has listed the existing items and
\* is deleting them or embedding and inserting the new ones
Indexing ==
    \E h \in Handlers : refresh[h].pc \in {"clear", "embed", "insert"}

\* POST /api/system/refresh arrives: the two fetches start
RefreshArrive(h) ==
    /\ h \in Handlers
    /\ refresh[h].pc = "new"
    /\ h > 1 => refresh[h - 1].pc # "new"
    /\ refresh' = [refresh EXCEPT ![h].pc = "fetching"]
    /\ UNCHANGED <<dbIndex, dbMeta, requests, notDb>>

\* handler h at indexKalshi with the lists the two fetches returned
AtIndexKalshi(h, k, p, failed) ==
    [refresh EXCEPT ![h].pc = "list", ![h].venue = "kalshi",
                    ![h].kalshiMarkets = k, ![h].polyMarkets = p,
                    ![h].failed = failed]

\* the slip of indexing without saving the metadata first
Fetched_noSave(h, k, p, failed) ==
    /\ refresh' = AtIndexKalshi(h, k, p, failed)
    /\ dbMeta' = dbMeta

\* lines 21-27 of the handler, given what the two fetches returned
Fetched(h, k, p, failed) ==
    /\ refresh' = AtIndexKalshi(h, k, p, failed)
    /\ dbMeta' = saveDbMetadata(dbMeta, Len(k), Len(p))

\* a handler that has answered with `status`; its locals are gone
Responded(status) ==
    [NewRefresh EXCEPT !.pc = "responded", !.status = status]

\* lines 17-20 and 41-44: Promise.all settles.  It rejects when a fetch
\* rejects, and the handler answers 500 from its catch; else the handler
\* goes on with the two lists.
Settled(h, k, p, failed) ==
    IF "thrown" \in DOMAIN k \/ "thrown" \in DOMAIN p
    THEN /\ refresh' = [refresh EXCEPT ![h] = Responded(500)]
         /\ dbMeta' = dbMeta
    ELSE Fetched(h, k.returned, p.returned, failed)

\* both fetches are done, each with one of the given outcomes:
\* saveDbMetadata, then indexKalshi is called; refresh[h].failed keeps the
\* venues of which a page request failed
FetchesDone(h, kalshiFetches, polyFetches) ==
    /\ h \in Handlers
    /\ refresh[h].pc = "fetching"
    /\ \E kalshi \in kalshiFetches, poly \in polyFetches :
           Settled(h, kalshi.result, poly.result,
                   kalshi.failed \cup poly.failed)
    /\ UNCHANGED <<dbIndex, requests, notDb>>

RefreshFetched(h) == FetchesDone(h, KalshiFetches, PolyFetches)

\* the array the running indexMarkets call of a handler was given
RefreshMarkets(rf) ==
    IF rf.venue = "kalshi" THEN rf.kalshiMarkets ELSE rf.polyMarkets

\* indexMarkets: const existing = await index.listItems()
RefreshList(h) ==
    /\ h \in Handlers
    /\ refresh[h].pc = "list"
    /\ refresh' = [refresh EXCEPT ![h].pc = "clear",
                                  ![h].existing = dbIndex[refresh[h].venue]]
    /\ UNCHANGED <<dbIndex, dbMeta, requests, notDb>>

\* indexMarkets: await index.deleteItem(item.id), one existing item
RefreshDelete(h) ==
    /\ h \in Handlers
    /\ refresh[h].pc = "clear"
    /\ refresh[h].existing # <<>>
    /\ dbIndex' = [dbIndex EXCEPT ![refresh[h].venue] =
                      WithoutId(@, Head(refresh[h].existing).id)]
    /\ refresh' = [refresh EXCEPT ![h].existing = Tail(@)]
    /\ UNCHANGED <<dbMeta, requests, notDb>>

\* indexMarkets returned: indexPolymarket comes after indexKalshi, the
\* closing steps of the handler after indexPolymarket
AfterIndexing(rf) ==
    IF rf.venue = "kalshi"
    THEN [rf EXCEPT !.pc = "list", !.venue = "polymarket"]
    ELSE [rf EXCEPT !.pc = "finish"]

\* the for loop over the batches at its test: at the getEmbeddings call of
\* the next batch, or past the loop
NextBatch(rf) ==
    IF rf.pending = <<>> THEN AfterIndexing(rf)
    ELSE [rf EXCEPT !.pc = "embed"]

\* markets.sort(...) sorts the array of the handler in place
SortedInPlace(rf) ==
    IF rf.venue = "kalshi"
    THEN [rf EXCEPT !.kalshiMarkets = SortedByVolume(rf.kalshiMarkets)]
    ELSE [rf EXCEPT !.polyMarkets = SortedByVolume(rf.polyMarkets)]

\* the locals of indexMarkets at the first test of the loop
AtFirstBatch(rf) ==
    NextBatch([rf EXCEPT !.pending = topMarkets(RefreshMarkets(rf))])

\* indexMarkets: the index is cleared; sort and slice, up to the first
\* await getEmbeddings(titles)
RefreshEmbed(h) ==
    /\ h \in Handlers
    /\ refresh[h].pc = "clear"
    /\ refresh[h].existing = <<>>
    /\ refresh' = [refresh EXCEPT
                      ![h] = AtFirstBatch(SortedInPlace(refresh[h]))]
    /\ UNCHANGED <<dbIndex, dbMeta, requests, notDb>>

\* list.slice(n)
Drop(list, n) == SubSeq(list, n + 1, Len(list))

\* const BATCH_SIZE = 32
BATCH_SIZE == 32

\* indexMarkets: await getEmbeddings(titles) settles.  Resolved, the
\* markets of the batch are inserted one by one; rejected, the catch of the
\* batch logs the error and the loop goes on with the next batch.
RefreshEmbedded(h) ==
    /\ h \in Handlers
    /\ refresh[h].pc = "embed"
    /\ \E resolved \in BOOLEAN :
         refresh' = [refresh EXCEPT ![h] =
            IF resolved
            THEN [refresh[h] EXCEPT
                     !.pc = "insert",
                     !.batch = Take(refresh[h].pending, BATCH_SIZE),
                     !.pending = Drop(refresh[h].pending, BATCH_SIZE)]
            ELSE NextBatch([refresh[h] EXCEPT
                     !.pending = Drop(refresh[h].pending, BATCH_SIZE)])]
    /\ UNCHANGED <<dbIndex, dbMeta, requests, notDb>>

\* indexMarkets: await index.insertItem(...), one market of the batch
RefreshInsert(h) ==
    /\ h \in Handlers
    /\ refresh[h].pc = "insert"
    /\ dbIndex' = [dbIndex EXCEPT ![refresh[h].venue] =
                      Append(@, Head(refresh[h].batch))]
    /\ refresh' = [refresh EXCEPT ![h] =
            IF Len(refresh[h].batch) = 1
            THEN NextBatch([refresh[h] EXCEPT !.batch = <<>>])
            ELSE [refresh[h] EXCEPT !.batch = Tail(refresh[h].batch)]]
    /\ UNCHANGED <<dbMeta, requests, notDb>>

\* lines 30-32 of the handler: saveDbMetadata again, up to await
\* getDbStats()
RefreshSave(h) ==
    /\ h \in Handlers
    /\ refresh[h].pc = "finish"
    /\ dbMeta' = saveDbMetadata(dbMeta, Len(refresh[h].kalshiMarkets),
                                Len(refresh[h].polyMarkets))
    /\ refresh' = [refresh EXCEPT ![h].pc = "stats"]
    /\ UNCHANGED <<dbIndex, requests, notDb>>

\* lines 32-40: await getDbStats() settles, res.json
RefreshRespond(h) ==
    /\ h \in Handlers
    /\ refresh[h].pc = "stats"
    /\ refresh' = [refresh EXCEPT ![h] = Responded(200)]
    /\ UNCHANGED <<dbIndex, dbMeta, requests, notDb>>

\* GET /api/opportunities arrives: the lock test, then findMatchesFromDb is
\* called
OppArrive(r) ==
    /\ requests[r].pc = "new"
    /\ \E limit \in Limits :
         requests' = [requests EXCEPT ![r] =
            IF Locked
            THEN [@ EXCEPT !.pc = "responded", !.status = 503,
                           !.arrivedWhileIndexing = Indexing]
            ELSE [@ EXCEPT !.pc = "listPoly", !.maxResults = limit,
                           !.arrivedWhileIndexing = Indexing]]
    /\ UNCHANGED <<dbIndex, dbMeta, refresh, notDb>>

\* findMatchesFromDb: const polyItems = await polyIndex.listItems()
OppListPoly(r) ==
    /\ requests[r].pc = "listPoly"
    /\ requests' = [requests EXCEPT ![r].pc = "listKalshi",
                                    ![r].polyItems = dbIndex.polymarket]
    /\ UNCHANGED <<dbIndex, dbMeta, refresh, notDb>>

\* findMatchesFromDb: const kalshiItems = await kalshiIndex.listItems(),
\* read for its length only; the loop starts unless polyItems is empty
OppListKalshi(r) ==
    /\ requests[r].pc = "listKalshi"
    /\ requests' = [requests EXCEPT ![r] =
            IF @.polyItems = <<>>
            THEN [@ EXCEPT !.pc = "stats"]
            ELSE [@ EXCEPT !.pc = "query", !.pos = 1]]
    /\ UNCHANGED <<dbIndex, dbMeta, refresh, notDb>>

\* a set of claimed ids that all running calls share
usedKalshiOf_shared(calls, r) ==
    UNION {calls[q].usedKalshi : q \in DOMAIN calls}

\* const usedKalshi = new Set(): the set of the call numbered r
usedKalshiOf(calls, r) == calls[r].usedKalshi

\* the locals of findMatchesFromDb after one iteration over the results
\* the query returned
AfterQuery(rq, results, usedKalshi) ==
    AdvanceLoop(TakeResult(rq, results,
                           FirstAcceptable(results, 1, rq.minSimilarity,
                                           usedKalshi)))

\* the loop of findMatchesFromDb run without a break at its awaits
RECURSIVE DbLoop(_, _)
DbLoop(rq, kalshiIndex) ==
    IF rq.pc # "query" THEN rq
    ELSE DbLoop(AfterQuery(rq, queryItems(kalshiIndex, rq.polyItems[rq.pos],
                                          queryTopK),
                           rq.usedKalshi),
                kalshiIndex)

\* findMatchesFromDb(minSimilarity, maxResults) running alone over index
findMatchesFromDb(index, minSimilarity, maxResults) ==
    IF index.polymarket = <<>> THEN <<>>
    ELSE DbLoop([pc |-> "query", minSimilarity |-> minSimilarity,
                 maxResults |-> maxResults, polyItems |-> index.polymarket,
                 pos |-> 1, matches |-> <<>>, usedKalshi |-> {}],
                index.kalshi).matches

\* findMatchesFromDb: await kalshiIndex.queryItems(polyItem.vector, 5) and
\* the loop body after it
OppQuery(r) ==
    /\ requests[r].pc = "query"
    /\ requests' = [requests EXCEPT ![r] =
            AfterQuery(@, queryItems(dbIndex.kalshi, @.polyItems[@.pos],
                                     queryTopK),
                       usedKalshiOf(requests, r))]
    /\ UNCHANGED <<dbIndex, dbMeta, refresh, notDb>>

\* const stats = await getDbStats(); res.json({matches, ...})
OppRespond(r) ==
    /\ requests[r].pc = "stats"
    /\ requests' = [requests EXCEPT ![r].pc = "responded",
                                    ![r].status = 200,
                                    ![r].dbStats = getDbStats(dbMeta)]
    /\ UNCHANGED <<dbIndex, dbMeta, refresh, notDb>>

DbNext ==
    \/ \E h \in RefreshIds : RefreshArrive(h)
    \/ \E h \in RefreshIds : RefreshFetched(h)
    \/ \E h \in RefreshIds : RefreshList(h)
    \/ \E h \in RefreshIds : RefreshDelete(h)
    \/ \E h \in RefreshIds : RefreshEmbed(h)
    \/ \E h \in RefreshIds : RefreshEmbedded(h)
    \/ \E h \in RefreshIds : RefreshInsert(h)
    \/ \E h \in RefreshIds : RefreshSave(h)
    \/ \E h \in RefreshIds : RefreshRespond(h)
    \/ \E r \in RequestIds : OppArrive(r)
    \/ \E r \in RequestIds : OppListPoly(r)
    \/ \E r \in RequestIds : OppListKalshi(r)
    \/ \E r \in RequestIds : OppQuery(r)
    \/ \E r \in RequestIds : OppRespond(r)

SpecDb == DbInit /\ [][DbNext]_vars

-----------------------------------------------------------------------------
(* The system routes: refresh requests whose handlers may overlap, on a    *)
(* fresh install or on a populated database, with GET /api/system/stats    *)
(* and /health answered in between.  probe keeps the last answer and,      *)
(* under `at`, whether a handler was rebuilding, and whether one was       *)
(* indexing with the Kalshi index empty, when it was given.                *)

\* stats.lastUpdate ? 'populated' : 'empty'
databaseOf(stats) == IF stats.lastUpdate # 0 THEN "populated" ELSE "empty"

\* the steps of a refresh handler between its first write of the metadata
\* and its response
Rebuilding == {"list", "clear", "embed", "insert", "finish", "stats"}

\* whether a refresh handler is rebuilding, and whether one is indexing
\* while the Kalshi index is empty
Standing ==
    [rebuilding |-> \E h \in Handlers : refresh[h].pc \in Rebuilding,
     emptied |-> Indexing /\ dbIndex.kalshi = <<>>]

SysInit ==
    /\ \/ /\ dbIndex = [kalshi |-> <<>>, polymarket |-> <<>>]
          /\ dbMeta = Null
       \/ /\ dbIndex = [kalshi |-> <<K1, K2>>, polymarket |-> <<P2, P1>>]
          /\ dbMeta = [lastUpdate |-> 1, kalshiCount |-> 2,
                       polymarketCount |-> 2]
    /\ refresh = [h \in 1..MaxRefreshes |-> NewRefresh]
    /\ requests = [r \in RequestIds |-> NewRequest]
    /\ ArbIdle
    /\ SimIdle
    /\ MatchIdle
    /\ HybIdle
    /\ ProbeIdle
    /\ EmbIdle

\* the fetches of a run with overlapping handlers: Kalshi lists K1 and K2
\* on two pages and Polymarket P1 on one, and any page request may fail
SysKalshiFetches ==
    {FetchOf("kalshi",
             << [markets |-> <<KalshiListed(K1)>>, more |-> TRUE],
                [markets |-> <<KalshiListed(K2)>>, more |-> FALSE] >>,
             failure) : failure \in Failures}

SysPolyFetches ==
    {FetchOf("polymarket",
             << [markets |-> <<PolyListed(P1, DOfRat(Rat(62, 100)))>>,
                 more |-> FALSE] >>,
             failure) : failure \in Failures}

SysFetched(h) == FetchesDone(h, SysKalshiFetches, SysPolyFetches)

\* GET /api/system/stats: res.json(await getDbStats())
SysStats ==
    /\ probe' = << [route |-> "stats", dbStats |-> getDbStats(dbMeta),
                    at |-> Standing] >>
    /\ UNCHANGED notProbe

\* GET /api/system/health
SysHealth ==
    /\ probe' = << [route |-> "health", status |-> "ok",
                    database |-> databaseOf(getDbStats(dbMeta)),
                    dbStats |-> getDbStats(dbMeta),
                    at |-> Standing] >>
    /\ UNCHANGED notProbe

SysNext ==
    \/ \E h \in RefreshIds : RefreshArrive(h)
    \/ \E h \in RefreshIds : SysFetched(h)
    \/ \E h \in RefreshIds : RefreshList(h)
    \/ \E h \in RefreshIds : RefreshDelete(h)
    \/ \E h \in RefreshIds : RefreshEmbed(h)
    \/ \E h \in RefreshIds : RefreshEmbedded(h)
    \/ \E h \in RefreshIds : RefreshInsert(h)
    \/ \E h \in RefreshIds : RefreshSave(h)
    \/ \E h \in RefreshIds : RefreshRespond(h)
    \/ SysStats
    \/ SysHealth

SpecSystem == SysInit /\ [][SysNext]_vars

-----------------------------------------------------------------------------
(* findMatchesFromDb called directly: concurrent calls over an index that  *)
(* no refresh changes.  A call that reached "stats" has returned; its      *)
(* matches are the returned list.                                          *)

K3 == [id |-> "K3", volume24h |-> 4]

K4 == [id |-> "K4", volume24h |-> 3]

K5 == [id |-> "K5", volume24h |-> 2]

K6 == [id |-> "K6", volume24h |-> 1]

P3 == [id |-> "P3", volume24h |-> 4]

P4 == [id |-> "P4", volume24h |-> 3]

P5 == [id |-> "P5", volume24h |-> 2]

P6 == [id |-> "P6", volume24h |-> 1]

\* the indexes the calls run over: more Kalshi items than one query
\* returns, the two-by-two index, and an empty Polymarket index
DbMatchIndexes ==
    { [kalshi |-> <<K1, K2, K3, K4, K5, K6>>,
       polymarket |-> <<P1, P2, P3, P4, P5, P6>>],
      [kalshi |-> <<K1, K2>>, polymarket |-> <<P2, P1>>],
      [kalshi |-> <<K1>>, polymarket |-> <<>>] }

\* the default 0.6 and the default of the opportunities route
DbMinSimilarities == {Rat(60, 100), defaultMinSimilarity}

\* the default 100 and small limits
DbMaxResults == {0, 2, 100}

DbMatchInit ==
    /\ dbIndex \in DbMatchIndexes
    /\ dbMeta = [lastUpdate |-> 1,
                 kalshiCount |-> Len(dbIndex.kalshi),
                 polymarketCount |-> Len(dbIndex.polymarket)]
    /\ refresh = <<>>
    /\ requests = [r \in RequestIds |-> NewRequest]
    /\ ArbIdle
    /\ SimIdle
    /\ MatchIdle
    /\ HybIdle
    /\ ProbeIdle
    /\ EmbIdle

\* findMatchesFromDb(minSimilarity, maxResults) is called: the two
\* getOrCreateIndex awaits
DbCall(r) ==
    /\ requests[r].pc = "new"
    /\ \E minSimilarity \in DbMinSimilarities, maxResults \in DbMaxResults :
         requests' = [requests EXCEPT ![r] =
            [@ EXCEPT !.pc = "listPoly", !.minSimilarity = minSimilarity,
                      !.maxResults = maxResults]]
    /\ UNCHANGED <<dbIndex, dbMeta, refresh, notDb>>

DbMatchNext ==
    \/ \E r \in RequestIds : DbCall(r)
    \/ \E r \in RequestIds : OppListPoly(r)
    \/ \E r \in RequestIds : OppListKalshi(r)
    \/ \E r \in RequestIds : OppQuery(r)

SpecDbMatch == DbMatchInit /\ [][DbMatchNext]_vars

-----------------------------------------------------------------------------
(* Properties of the arbitrage calculator, checked under SpecArb *)

\* the combination a finished checkArbitrageOpportunity call evaluated
CheckedCombination ==
    EvaluateCombination(arbIn.platform1, arbIn.price1, arbIn.platform2,
                        arbIn.price2, arbIn.investment)

\* C3: every opportunity returned by checkArbitrageOpportunity or
\* calculateArbitrage has netProfit > 0, and a combination whose netProfit is
\* zero, negative or not a number yields null.
C3_ProfitableOrNull ==
    /\ arbPc # "ready" /\ arbOut.result # Null
         => DLess(DZero, arbOut.result.netProfit)
    /\ arbPc = "checked" /\ ~DLess(DZero, CheckedCombination.profit.netProfit)
         => arbOut.result = Null

\* C3 witness: a check returned an opportunity, with positive profit
C3_Witness ==
    /\ arbPc = "checked"
    /\ arbOut.result # Null
    /\ DLess(DZero, arbOut.result.netProfit)

\* C4: in every returned opportunity both sides hold the same contract count,
\* both cost records are the costs of that count, and guaranteedPayout is
\* that count.
C4_EqualContracts ==
    arbPc # "ready" /\ arbOut.result # Null =>
        LET o == arbOut.result
        IN  /\ o.contracts1 = o.contracts2
            /\ o.cost1 = PlatformCost(o.platform1, o.contracts1, o.price1)
            /\ o.cost2 = PlatformCost(o.platform2, o.contracts2, o.price2)
            /\ o.cost1.maxPayout = o.contracts1
            /\ o.cost2.maxPayout = o.contracts2
            /\ o.guaranteedPayout = o.contracts1

\* C4 witness: an opportunity produced by the rescale branch
C4_Witness ==
    /\ arbPc = "checked"
    /\ arbOut.result # Null
    /\ CheckedCombination.rescaled
    /\ arbOut.result.contracts1 = CheckedCombination.contracts

\* C5: calculateArbitrage returns null exactly when neither combination is
\* profitable, and otherwise a profitable combination whose netProfit no
\* other profitable combination exceeds.
C5_BestCombination ==
    arbPc = "calculated" =>
        LET o1 == Opp1(arbIn.kalshiMarket, arbIn.polyMarket, arbIn.investment)
            o2 == Opp2(arbIn.kalshiMarket, arbIn.polyMarket, arbIn.investment)
            profitable == {o1, o2} \ {Null}
        IN  /\ arbOut.result = Null <=> profitable = {}
            /\ arbOut.result # Null =>
                 /\ arbOut.result \in profitable
                 /\ \A o \in profitable :
                      DLeq(o.netProfit, arbOut.result.netProfit)

\* C5 witness: the second combination (Kalshi no + Polymarket yes) is the
\* profitable one and is the one returned
C5_Witness ==
    /\ arbPc = "calculated"
    /\ arbOut.result # Null
    /\ arbOut.result.side1 = "no"
    /\ Opp1(arbIn.kalshiMarket, arbIn.polyMarket, arbIn.investment) = Null

\* the yes price of a market record lies in [0,1]
YesPriceInUnit(market) ==
    /\ market.yes_price # Undefined =>
           DLeq(DZero, market.yes_price) /\ DLeq(market.yes_price, DOfInt(1))
    /\ market.price # Undefined =>
           DLeq(DZero, market.price) /\ DLeq(market.price, DOfInt(1))

\* C26: for any Kalshi yes price and Polymarket yes price in [0,1], at most
\* one of the two combinations evaluated by calculateArbitrage is
\* profitable, because the two combinations' price sums add up to 2.
C26_AtMostOneCombination ==
    ( /\ arbPc = "calculated"
      /\ YesPriceInUnit(arbIn.kalshiMarket)
      /\ YesPriceInUnit(arbIn.polyMarket) )
    => \/ Opp1(arbIn.kalshiMarket, arbIn.polyMarket, arbIn.investment) = Null
       \/ Opp2(arbIn.kalshiMarket, arbIn.polyMarket, arbIn.investment) = Null

\* C26 witness: the first combination (Kalshi yes + Polymarket no) is
\* profitable and the second is not
C26_Witness ==
    /\ arbPc = "calculated"
    /\ YesPriceInUnit(arbIn.kalshiMarket)
    /\ YesPriceInUnit(arbIn.polyMarket)
    /\ Opp1(arbIn.kalshiMarket, arbIn.polyMarket, arbIn.investment) # Null
    /\ Opp2(arbIn.kalshiMarket, arbIn.polyMarket, arbIn.investment) = Null

\* C6: for an investment > 0 and two prices in [0,1] whose sum is at least 1,
\* checkArbitrageOpportunity returns null.
C6_NoArbitrageAtOrAboveOne ==
    ( /\ arbPc = "checked"
      /\ DLess(DZero, arbIn.investment)
      /\ DLeq(DOfInt(1), DAdd(arbIn.price1, arbIn.price2)) )
    => arbOut.result = Null

\* C6 witness: a check on prices summing to exactly 1 with no fee on either
\* side (Kalshi at 0, Polymarket at 1), where the net profit is exactly 0
C6_Witness ==
    /\ arbPc = "checked"
    /\ DLess(DZero, arbIn.investment)
    /\ DAdd(arbIn.price1, arbIn.price2) = DOfInt(1)
    /\ CheckedCombination.profit.netProfit = DZero
    /\ arbOut.result = Null

\* the exact fee rate * contracts * price * (1 - price) of a Kalshi call
ExactKalshiFee(in) ==
    RMul(RMul(RMul(IF in.isMaker THEN Rat(175, 10000) ELSE Rat(7, 100),
                   RInt(in.contracts)),
              Cents(in.cents)),
         RSub(RInt(1), Cents(in.cents)))

\* the smallest whole-cent amount that is at least `exact`
SmallestCentsAtLeast(exact) == Rat(RCeil(RMul(exact, RInt(100))), 100)

\* C14: for every contract count and price in [0,1], the Kalshi fee is the
\* smallest whole-cent amount that is greater than or equal to
\* rate x contracts x price x (1 - price), with rate 0.07 for taker and
\* 0.0175 for maker; for contracts = 100, price = 0.3, taker, it is exactly
\* 1.47.
C14_KalshiFeeIsCeilToCent ==
    arbPc = "costed" /\ arbIn.op = "kalshiCost"
        => /\ arbOut.cost.fee
                  = DOfRat(SmallestCentsAtLeast(ExactKalshiFee(arbIn)))
           /\ (arbIn.contracts = 100 /\ arbIn.cents = 30 /\ ~arbIn.isMaker
                   => arbOut.cost.fee = DOfRat(Rat(147, 100)))

\* C15: for every contract count >= 0 and price in [0,1],
\* calculatePolymarketCost returns fee = max(0, 0.02 x (contracts -
\* contracts x price)), totalCost = contracts x price + fee and maxPayout =
\* contracts, with no rounding of the fee.
C15_PolymarketCost ==
    arbPc = "costed" /\ arbIn.op = "polymarketCost"
        => LET contracts == DOfInt(arbIn.contracts)
               spent == DMul(contracts, Price(arbIn.cents))
               expected == DMax(DZero,
                                DMul(DOfRat(Rat(2, 100)),
                                     DSub(contracts, spent)))
           IN  /\ arbOut.cost.fee = expected
               /\ arbOut.cost.totalCost = DAdd(spent, expected)
               /\ arbOut.cost.maxPayout = contracts

\* a Polymarket cost whose fee is not a whole number of cents: rounding it
\* up to the cent would change it
C15_Witness ==
    /\ arbPc = "costed"
    /\ arbIn.op = "polymarketCost"
    /\ DLess(DZero, arbOut.cost.fee)
    /\ DLess(arbOut.cost.fee, CeilCents(arbOut.cost.fee))
    /\ arbOut.cost.totalCost
           = DAdd(arbOut.cost.contractCost, arbOut.cost.fee)

\* the positions of the pairs for which calculateArbitrage returned an
\* opportunity
ProfitablePairs == {i \in 1..Len(arbOut.arbs) : arbOut.arbs[i] # Null}

\* the returned list holds one opportunity for each of these pairs, with the
\* pair's markets, similarity and confidence, and nothing else
OnePerProfitablePair ==
    /\ Len(arbOut.opportunities) = Cardinality(ProfitablePairs)
    /\ \E f \in [1..Len(arbOut.opportunities) -> ProfitablePairs] :
         /\ \A a, b \in 1..Len(arbOut.opportunities) : f[a] = f[b] => a = b
         /\ \A k \in 1..Len(arbOut.opportunities) :
              LET o == arbOut.opportunities[k]
                  arb == arbOut.arbs[f[k]]
                  match == arbIn.matchedMarkets[f[k]]
              IN  /\ o.netProfit = arb.netProfit
                  /\ o.profitPercent = arb.profitPercent
                  /\ o.contracts1 = arb.contracts1
                  /\ o.side1 = arb.side1
                  /\ o.kalshiMarket = match.kalshi
                  /\ o.polymarketMarket = match.polymarket
                  /\ o.similarity = match.similarity
                  /\ o.matchConfidence = match.matchConfidence

\* C16: findArbitrageOpportunities returns a list sorted in descending
\* order of profitPercent that holds exactly one opportunity for each
\* matched pair having a profitable combination and nothing for the other
\* pairs.
C16_SortedOnePerProfitablePair ==
    arbPc = "found"
        => /\ \A k \in 1..(Len(arbOut.opportunities) - 1) :
                  DLeq(arbOut.opportunities[k + 1].profitPercent,
                       arbOut.opportunities[k].profitPercent)
           /\ \A i \in 1..Len(arbOut.arbs) :
                  arbOut.arbs[i]
                      = calculateArbitrage(arbIn.matchedMarkets[i].kalshi,
                                           arbIn.matchedMarkets[i].polymarket,
                                           arbIn.investment)
           /\ OnePerProfitablePair

\* C16 witness: three pairs, the first more profitable than the second met
\* after it, the third without an opportunity, so that the sort changed the
\* order and a pair was left out
C16_Witness ==
    /\ arbPc = "found"
    /\ Len(arbIn.matchedMarkets) = 3
    /\ arbOut.arbs[1] # Null
    /\ arbOut.arbs[2] # Null
    /\ arbOut.arbs[3] = Null
    /\ DLess(arbOut.arbs[1].profitPercent, arbOut.arbs[2].profitPercent)
    /\ Len(arbOut.opportunities) = 2
    /\ arbOut.opportunities[1].kalshiMarket = arbIn.matchedMarkets[2].kalshi
    /\ arbOut.opportunities[2].kalshiMarket = arbIn.matchedMarkets[1].kalshi

\* the market has no price that calculateArbitrage can read
LacksPrice(market) == market.yes_price = Undefined /\ market.price = Undefined

\* the same market with the genuine price 0.5
AtGenuineHalf(market) == [market EXCEPT !.yes_price = Price(50)]

\* C18: a market whose price field is missing or malformed gets the default
\* price 0.5 and stays distinguishable downstream from a market whose
\* genuine price is 0.5: the two are never given the same treatment.  Here
\* for the opportunity calculateArbitrage returns: the one computed for a
\* Kalshi market without a price differs from the one computed for that
\* market at the genuine price 0.5.
C18_DefaultPriceDistinguishable ==
    ( /\ arbPc = "calculated"
      /\ LacksPrice(arbIn.kalshiMarket)
      /\ arbOut.result # Null )
    => arbOut.result
           # calculateArbitrage(AtGenuineHalf(arbIn.kalshiMarket),
                                arbIn.polyMarket, arbIn.investment)

\* C19: whenever checkArbitrageOpportunity takes the rescale branch
\* (first-pass total cost above the investment), the total cost recomputed
\* at the rescaled contract count differs from the investment by less than
\* one cent, with the single rescale and no further iteration.  Stated for
\* the calls the program makes: side 1 on Kalshi, side 2 on Polymarket.
C19_RescaleWithinOneCent ==
    ( /\ arbPc = "checked"
      /\ arbIn.platform1 = "kalshi"
      /\ arbIn.platform2 = "polymarket"
      /\ CheckedCombination.rescaled )
    => /\ DLess(DSub(CheckedCombination.profit.totalCost, arbIn.investment),
                Price(1))
       /\ DLess(DSub(arbIn.investment, CheckedCombination.profit.totalCost),
                Price(1))

-----------------------------------------------------------------------------
(* Properties of calculateSimilarity, checked under SpecSim *)

\* the entity records of the two titles of the call
Entities1 == extractKeyEntities(simIn.str1)

Entities2 == extractKeyEntities(simIn.str2)

\* C8: calculateSimilarity returns exactly 0 for any two titles whose sets
\* of explicit years are both non-empty and disjoint, whatever else the
\* titles share.
C8_YearGate ==
    ( /\ simPc = "done"
      /\ simIn.str1 # <<>> /\ simIn.str2 # <<>>
      /\ Entities1.years # {}
      /\ Entities2.years # {}
      /\ Entities1.years \cap Entities2.years = {} )
    => simOut = DZero

\* C9: calculateSimilarity(s, s) is 1.0 for every non-empty title s.
C9_Reflexive ==
    (simPc = "done" /\ simIn.str1 = simIn.str2 /\ simIn.str1 # <<>>)
    => simOut = DOfInt(1)

\* C9 witness: a finished call on two copies of a title that has a year, a
\* name and a word, answered 1
C9_Witness ==
    /\ simPc = "done"
    /\ simIn.str1 = simIn.str2
    /\ Entities1.years # {}
    /\ Entities1.names # {}
    /\ simOut = DOfInt(1)

\* C10: calculateSimilarity(a, b) equals calculateSimilarity(b, a).
C10_Symmetric ==
    simPc = "done" => simOut = calculateSimilarity(simIn.str2, simIn.str1)

\* C10 witness: a finished call answered through the substring strategy,
\* the shorter title being the one contained
C10_Witness ==
    /\ simPc = "done"
    /\ simOut = DOfRat(Rat(85, 100))
    /\ Entities1.normalized # <<>>
    /\ Len(Entities1.normalized) < Len(Entities2.normalized)

-----------------------------------------------------------------------------
(* Properties of findMatchingMarkets, checked under SpecMatch *)

\* C1: the output of a matching pass contains no venue-A market id in more
\* than one pair and no venue-B market id in more than one pair.
C1_Exclusive ==
    \A i, j \in 1..Len(matches) :
        i # j => /\ matches[i].kalshi.id # matches[j].kalshi.id
                 /\ matches[i].polymarket.id # matches[j].polymarket.id

\* the market the coming iteration takes
CurrentKalshi == matchIn.kalshiMarkets[matchI]

\* the similarities of that market to the venue-B markets not yet claimed
UnclaimedSimilarities ==
    {calculateSimilarity(TitleOf(CurrentKalshi),
                         TitleOf(matchIn.polymarketMarkets[j])) :
        j \in {k \in 1..Len(matchIn.polymarketMarkets) :
                 matchIn.polymarketMarkets[k].id \notin usedPolyMarkets}}

\* the iteration pushes a pair
Emits == Len(matches') = Len(matches) + 1

\* C7 as stated: a pair is emitted if and only if the highest similarity
\* over the unclaimed venue-B markets is at least minSimilarity; otherwise
\* nothing is pushed and nothing is claimed.
C7_EmitsIffAtLeastMin ==
    [][MatchIterate =>
        LET sims == UnclaimedSimilarities
        IN  /\ Emits <=> \E x \in sims :
                          DLeq(DOfRat(matchIn.minSimilarity), x)
            /\ ~Emits => /\ matches' = matches
                         /\ usedPolyMarkets' = usedPolyMarkets]_vars

\* C7 amended: a pair is emitted if and only if the highest similarity over
\* the unclaimed venue-B markets is at least minSimilarity and greater than
\* 0; the pair then carries that highest similarity and an unclaimed
\* venue-B market; otherwise nothing is pushed and nothing is claimed.
C7_EmitsIffAtLeastMinAndPositive ==
    [][MatchIterate =>
        LET sims == UnclaimedSimilarities
            last == matches'[Len(matches')]
        IN  /\ Emits <=> \E x \in sims :
                          /\ DLeq(DOfRat(matchIn.minSimilarity), x)
                          /\ DLess(DZero, x)
            /\ Emits =>
                 /\ last.similarity \in sims
                 /\ \A x \in sims : DLeq(x, last.similarity)
                 /\ last.kalshi = CurrentKalshi
                 /\ last.polymarket.id \notin usedPolyMarkets
                 /\ usedPolyMarkets' = usedPolyMarkets \cup {last.polymarket.id}
            /\ ~Emits => /\ matches' = matches
                         /\ usedPolyMarkets' = usedPolyMarkets]_vars

\* C7 witness: the first venue-A market was omitted and the second one was
\* paired, at a similarity equal to the threshold
C7_Witness ==
    /\ matchPc = "done"
    /\ Len(matchIn.kalshiMarkets) = 2
    /\ Len(matches) = 1
    /\ matches[1].kalshi = matchIn.kalshiMarkets[2]
    /\ matches[1].similarity = DOfRat(matchIn.minSimilarity)

\* C17: two runs of findMatchingMarkets on the same two lists in the same
\* order with the same minSimilarity return the same pairs, in the same
\* order, with the same similarity and confidence.
C17_SameRunsSameResult ==
    \A a, b \in 1..Len(matchRuns) : matchRuns[a] = matchRuns[b]

\* C17 witness: two runs have returned, each with a pair
C17_Witness ==
    /\ matchPc = "done"
    /\ Len(matchRuns) = 2
    /\ matchRuns[1] # <<>>
    /\ matchRuns[2] = matchRuns[1]
    /\ usedPolyMarkets # {}

-----------------------------------------------------------------------------
(* Properties of the backend, checked under SpecDb *)

\* C2: every GET /api/opportunities request that arrives while a refresh is
\* clearing and repopulating a vector index is answered with 503 and never
\* runs findMatchesFromDb against that index.
C2_UnavailableWhileIndexing ==
    \A r \in RequestIds :
        requests[r].arrivedWhileIndexing =>
            requests[r].pc = "responded" /\ requests[r].status = 503

\* C13: if any page request to a venue fails during fetchAllMarkets, the
\* fetch for that venue ends in an error and the refresh never indexes a
\* partial list made of the pages fetched before the failure.
C13_NoPartialListIndexed ==
    \A h \in Handlers :
        ~(refresh[h].pc = "insert" /\ refresh[h].venue \in refresh[h].failed)

-----------------------------------------------------------------------------
(* Properties of the hybrid and semantic matchers, checked under SpecHybrid *)

\* the pairs a finished call returned, none if it threw
ReturnedPairs(h) ==
    IF h.pc = "done" /\ "returned" \in DOMAIN h.result
    THEN {h.result.returned[k] : k \in 1..Len(h.result.returned)}
    ELSE {}

\* 0 <= x <= 1
DoubleInUnitInterval(x) == DLeq(DZero, x) /\ DLeq(x, DOfInt(1))

\* C11: the similarity carried by every emitted pair lies in [0,1], for the
\* lexical matcher findMatchingMarkets, for the hybrid findMatches and for
\* its keyword fallback findSimpleMatches.
C11_SimilarityInUnitInterval ==
    /\ \A k \in 1..Len(matches) : DoubleInUnitInterval(matches[k].similarity)
    /\ hybrid.pc = "done" /\ hybrid.op \in {"findMatches", "findSimpleMatches"}
           => \A pair \in ReturnedPairs(hybrid) :
                  DoubleInUnitInterval(pair.similarity)

\* C12: when embeddings cannot be produced during a matching pass (the model
\* fails to load or an embedding call throws), the pass still completes and
\* returns pairs computed by lexical or keyword scoring instead of failing
\* with an error.
C12_FallbackOnEmbedderFailure ==
    hybrid.pc = "done" /\ hybrid.embedder # "ok"
        => "returned" \in DOMAIN hybrid.result

-----------------------------------------------------------------------------
(* Properties of both greedy matchers, checked under SpecMatchers *)

\* an iteration of findMatchingMarkets pushes a pair: its Polymarket market
\* is the first of the unclaimed ones with the highest similarity
LexicalBestFirst ==
    matchI' = matchI + 1 /\ Len(matches') = Len(matches) + 1
    => LET pair == matches'[Len(matches')]
           polys == matchIn.polymarketMarkets
           unclaimed == {j \in 1..Len(polys) :
                            polys[j].id \notin usedPolyMarkets}
       IN  \E j \in unclaimed :
             /\ polys[j] = pair.polymarket
             /\ pair.similarity
                    = calculateSimilarity(
                          TitleOf(matchIn.kalshiMarkets[matchI]),
                          TitleOf(polys[j]))
             /\ \A m \in unclaimed :
                  LET other == calculateSimilarity(
                                   TitleOf(matchIn.kalshiMarkets[matchI]),
                                   TitleOf(polys[m]))
                  IN  /\ DLeq(other, pair.similarity)
                      /\ other = pair.similarity => j <= m

\* an iteration of the outer loop of the hybrid findMatches pushes a pair
HybridPushes ==
    /\ hybrid.pc = "loop"
    /\ hybrid'.pc = "loop"
    /\ hybrid'.i = hybrid.i + 1
    /\ Len(hybrid'.state.matches) = Len(hybrid.state.matches) + 1

\* the positions of the Kalshi markets unclaimed before the iteration
UnclaimedKalshi ==
    {j \in 1..Len(hybrid.kalshiEntities) :
        hybrid.kalshiEntities[j].market.id \notin hybrid.state.usedKalshi}

\* cosine of the embeddings of the Polymarket market of the iteration and
\* of Kalshi market j
CosineWith(j) ==
    cosineSimilarity(hybrid.polyEntities[hybrid.i].embedding,
                     hybrid.kalshiEntities[j].embedding)

\* the entity comparison of the same two markets
ComparisonWith(j) ==
    compareEntities(hybrid.polyEntities[hybrid.i].entities,
                    hybrid.kalshiEntities[j].entities)

\* the score of part_003 lines 334-347 for Kalshi market j: the weighted
\* sum with the bonus and the penalty
ScoreWith(j) == hybridFinalScore(CosineWith(j), ComparisonWith(j))

\* Kalshi market j has a score: its entities can be compared
HasScore(j) == ComparisonWith(j) # TypeError

\* the loop computes a score for Kalshi market j: the cosine is not below
\* 0.4 and the comparison records at most one conflict
PassesGates(j) ==
    /\ ~DLess(CosineWith(j), DOfRat(Rat(4, 10)))
    /\ HasScore(j)
    /\ Len(ComparisonWith(j).conflicts) <= 1

\* the pair an iteration pushes carries Kalshi market j and its score, no
\* market of `others` has a higher score, and none before j has that score
BestFirstAmong(j, others) ==
    LET pair == hybrid'.state.matches[Len(hybrid'.state.matches)]
    IN  /\ hybrid.kalshiEntities[j].market = pair.kalshi
        /\ pair.similarity = ScoreWith(j)
        /\ \A m \in others :
             /\ DLeq(ScoreWith(m), pair.similarity)
             /\ DEq(ScoreWith(m), pair.similarity) => j <= m

\* as stated: the Kalshi market paired is the first with the highest score
\* of all the unclaimed ones
HybridBestOfAll ==
    HybridPushes
    => \E j \in UnclaimedKalshi :
           BestFirstAmong(j, {m \in UnclaimedKalshi : HasScore(m)})

\* the Kalshi market paired is the first with the highest score of the
\* unclaimed ones that pass both gates
HybridBestFirst ==
    HybridPushes
    => \E j \in UnclaimedKalshi :
           /\ BestFirstAmong(j, {m \in UnclaimedKalshi : PassesGates(m)})
           /\ PassesGates(j)

\* C20 as stated: in findMatchingMarkets and in the hybrid findMatches, the
\* venue-B market paired with a venue-A market has the highest score among
\* all venue-B markets unclaimed at that moment, and when several unclaimed
\* venue-B markets share that highest score the one earliest in the venue-B
\* list is chosen.
C20_BestOfAllUnclaimed ==
    [][LexicalBestFirst /\ HybridBestOfAll]_vars

\* C20: in findMatchingMarkets the Polymarket market paired has the highest
\* similarity among all Polymarket markets unclaimed at that moment; in the
\* hybrid findMatches the Kalshi market paired has the highest score among
\* the unclaimed Kalshi markets that pass both gates, an embedding cosine
\* of at least 0.4 and at most one recorded conflict.  In both, when
\* several of these markets share the highest score the one earliest in
\* the list is chosen.
C20_BestUnclaimedFirstOnTie ==
    [][LexicalBestFirst /\ HybridBestFirst]_vars

\* C20 witness: the first iteration of the hybrid findMatches had three
\* unclaimed Kalshi markets, two of them with the same title and so the
\* same score, and one that did not pass the gates although its score is
\* higher; the first of the two was paired
C20_Witness ==
    /\ hybrid.pc = "loop"
    /\ hybrid.i = 2
    /\ Len(hybrid.kalshiEntities) = 3
    /\ Len(hybrid.state.matches) = 1
    /\ \E a, b, g \in 1..3 :
         /\ a < b
         /\ g \notin {a, b}
         /\ TitleOrEmpty(hybrid.kalshiMarkets[a])
                = TitleOrEmpty(hybrid.kalshiMarkets[b])
         /\ hybrid.state.matches[1].polymarket = hybrid.polymarkets[1]
         /\ hybrid.state.matches[1].kalshi = hybrid.kalshiMarkets[a]
         /\ Len(compareEntities(hybrid.polyEntities[1].entities,
                                hybrid.kalshiEntities[g].entities).conflicts)
                > 1
         /\ DLess(hybrid.state.matches[1].similarity,
                  hybridFinalScore(
                      cosineSimilarity(hybrid.polyEntities[1].embedding,
                                       hybrid.kalshiEntities[g].embedding),
                      compareEntities(hybrid.polyEntities[1].entities,
                                      hybrid.kalshiEntities[g].entities)))

-----------------------------------------------------------------------------
(* Properties of findMatchesFromDb, checked under SpecDbMatch *)

\* call r runs one iteration of its loop over polyItems
QueryStep(r) == requests[r].pc = "query" /\ requests'[r] # requests[r]

\* positions in the Kalshi index of the items that call rq has not claimed
\* and that score at least rq.minSimilarity against polyItem
UnclaimedAtLeastMin(rq, polyItem) ==
    {k \in 1..Len(dbIndex.kalshi) :
        /\ dbIndex.kalshi[k].id \notin rq.usedKalshi
        /\ RLeq(rq.minSimilarity,
                VectorScores[polyItem.id][dbIndex.kalshi[k].id])}

\* C21: findMatchesFromDb pairs each Polymarket item, until maxResults is
\* reached, with the highest-scoring Kalshi item among all indexed Kalshi
\* items not yet claimed, and leaves the item unmatched only when no
\* unclaimed Kalshi item in the whole index scores at least minSimilarity
\* against it.
C21_BestOfWholeIndex ==
    [][\A r \in RequestIds :
         QueryStep(r) =>
           LET rq == requests[r]
               polyItem == rq.polyItems[rq.pos]
               candidates == UnclaimedAtLeastMin(rq, polyItem)
               after == requests'[r].matches
           IN  IF Len(after) = Len(rq.matches)
               THEN candidates = {}
               ELSE \E i \in 1..Len(after) :
                      /\ after[i].polymarket = polyItem
                      /\ after[i].kalshi.id \notin rq.usedKalshi
                      /\ \A k \in candidates :
                           RLeq(VectorScores[polyItem.id]
                                            [dbIndex.kalshi[k].id],
                                after[i].similarity)]_vars

\* C24: when two findMatchesFromDb calls run with their steps interleaved
\* at the await points over an unchanged index, each returns exactly what
\* it would return running alone: a Kalshi item claimed in one call stays
\* eligible in the other.
C24_InterleavedAsAlone ==
    \A r \in RequestIds :
        requests[r].pc = "stats"
        => requests[r].matches
               = findMatchesFromDb(dbIndex, requests[r].minSimilarity,
                                   requests[r].maxResults)

\* C24 witness: one call has returned while the other is in its loop, and
\* both have claimed the same Kalshi item
C24_Witness ==
    /\ requests[1].pc = "stats"
    /\ requests[2].pc = "query"
    /\ requests[1].usedKalshi \cap requests[2].usedKalshi # {}
    /\ Len(requests[1].matches) >= 2

\* C29: findMatchesFromDb returns at most maxResults pairs, for every
\* maxResults >= 0, each with similarity >= minSimilarity, sorted by
\* similarity in descending order.
C29_AtMostMaxResultsSorted ==
    \A r \in RequestIds :
        requests[r].pc = "stats"
        => LET returned == requests[r].matches
           IN  /\ Len(returned) <= requests[r].maxResults
               /\ \A i \in 1..Len(returned) :
                    RLeq(requests[r].minSimilarity, returned[i].similarity)
               /\ \A i \in 1..Len(returned) : \A j \in i..Len(returned) :
                    RLeq(returned[j].similarity, returned[i].similarity)

-----------------------------------------------------------------------------
(* Properties of the scores and gates of the hybrid findMatches, checked   *)
(* under SpecHybrid                                                        *)

\* the pairs the hybrid findMatches has pushed so far
PushedPairs ==
    IF hybrid.pc \in {"loop", "done"} /\ hybrid.op = "findMatches"
    THEN {hybrid.state.matches[k] : k \in 1..Len(hybrid.state.matches)}
    ELSE {}

\* cosine of the embeddings of the two titles of a pair
PairCosine(pair) ==
    cosineSimilarity(getEmbedding(TitleOrEmpty(pair.polymarket)),
                     getEmbedding(TitleOrEmpty(pair.kalshi)))

\* the entity bags of the two markets of a pair
PolyBag(pair) == extractEntities(TitleOrEmpty(pair.polymarket))

KalshiBag(pair) == extractEntities(TitleOrEmpty(pair.kalshi))

\* 0.6 x cosine + 0.4 x max(0, entityScore) + 0.1 x wordJaccard
WeightedSum(cosine, comparison) ==
    DAdd(DAdd(DMul(DOfRat(Rat(6, 10)), cosine),
              DMul(DOfRat(Rat(4, 10)), DMax(DZero, comparison.score))),
         DMul(DOfRat(Rat(1, 10)), comparison.wordOverlap))

\* C22: the score the hybrid findMatches compares with minSimilarity and
\* stores as the pair's similarity equals 0.6 x cosine + 0.4 x max(0,
\* entityScore) + 0.1 x wordJaccard for every scored candidate, with no
\* other term added or subtracted.
C22_ScoreIsWeightedSum ==
    \A pair \in PushedPairs :
        pair.similarity
            = WeightedSum(PairCosine(pair),
                          compareEntities(PolyBag(pair), KalshiBag(pair)))

\* the conflict categories that fire on two entity bags
YearConflict(a, b) ==
    a.dates # {} /\ b.dates # {} /\ YearsOf(a.dates) # {}
    /\ YearsOf(b.dates) # {} /\ YearsOf(a.dates) \cap YearsOf(b.dates) = {}

NameConflict(a, b) == a.names # {} /\ b.names # {} /\ a.names \cap b.names = {}

ThresholdConflict(a, b) ==
    a.thresholds # {} /\ b.thresholds # {}
    /\ Squeezed(a.thresholds) \cap Squeezed(b.thresholds) = {}

NegationMismatch(a, b) == a.hasNegation # b.hasNegation

\* number of the given conditions that hold
CountTrue(conditions) ==
    Cardinality({k \in 1..Len(conditions) : conditions[k]})

\* C23 as stated: in the hybrid findMatches no emitted pair has an embedding
\* cosine similarity below 0.4, and no emitted pair has more than one
\* conflict category fired among year conflict, name conflict, threshold
\* conflict and negation mismatch.
C23_GatesWithNameConflict ==
    \A pair \in PushedPairs :
        LET a == PolyBag(pair).entities
            b == KalshiBag(pair).entities
        IN  /\ DLeq(DOfRat(Rat(4, 10)), PairCosine(pair))
            /\ CountTrue(<<YearConflict(a, b), NameConflict(a, b),
                           ThresholdConflict(a, b),
                           NegationMismatch(a, b)>>) <= 1

\* C23: in the hybrid findMatches no emitted pair has an embedding cosine
\* similarity below 0.4, and no emitted pair has more than one of the
\* conflicts the comparison records: year conflict, threshold conflict and
\* negation mismatch.  Names on both sides with none shared lower the score
\* and are not recorded as a conflict.
C23_GatesOnRecordedConflicts ==
    \A pair \in PushedPairs :
        LET a == PolyBag(pair).entities
            b == KalshiBag(pair).entities
        IN  /\ DLeq(DOfRat(Rat(4, 10)), PairCosine(pair))
            /\ CountTrue(<<YearConflict(a, b), ThresholdConflict(a, b),
                           NegationMismatch(a, b)>>) <= 1

\* C23 witness: a pair with one recorded conflict was emitted, and a
\* candidate with two was passed over
C23_Witness ==
    /\ hybrid.op = "findMatches"
    /\ hybrid.pc = "done"
    /\ \E pair \in PushedPairs :
         Len(pair.matchDetails.conflicts) = 1
    /\ \E i \in 1..Len(hybrid.polyEntities) :
       \E j \in 1..Len(hybrid.kalshiEntities) :
         LET a == hybrid.polyEntities[i].entities.entities
             b == hybrid.kalshiEntities[j].entities.entities
         IN  /\ YearConflict(a, b)
             /\ NegationMismatch(a, b)
             /\ DLeq(DOfRat(Rat(4, 10)),
                     cosineSimilarity(hybrid.polyEntities[i].embedding,
                                      hybrid.kalshiEntities[j].embedding))

-----------------------------------------------------------------------------
(* Properties of the confidence of emitted pairs, checked under            *)
(* SpecMatchers                                                            *)

\* the documented cut lines of the lexical matchers
LexicalConfidence(similarity) ==
    IF DLeq(DOfRat(Rat(7, 10)), similarity) THEN "high"
    ELSE IF DLeq(DOfRat(Rat(5, 10)), similarity) THEN "medium"
    ELSE "low"

\* the documented cut lines of the hybrid and database matchers
HybridConfidence(similarity) ==
    IF DLeq(DOfRat(Rat(8, 10)), similarity) THEN "high"
    ELSE IF DLeq(DOfRat(Rat(65, 100)), similarity) THEN "medium"
    ELSE "low"

\* C25: every emitted pair's confidence is a monotonic function of its
\* similarity with the documented cut lines: in lexical matchers high iff
\* similarity >= 0.7, medium iff 0.5 <= similarity < 0.7, low otherwise; in
\* hybrid and database matchers high iff similarity >= 0.8, medium iff
\* 0.65 <= similarity < 0.8, low otherwise.  A pair of the matchers of
\* vector-matcher.js is held to either pair of cut lines.
C25_ConfidenceCutLines ==
    /\ \A k \in 1..Len(matches) :
         matches[k].matchConfidence
             = LexicalConfidence(matches[k].similarity)
    /\ \A pair \in PushedPairs :
         pair.matchConfidence = HybridConfidence(pair.similarity)
    /\ hybrid.pc = "done" /\ hybrid.op = "findSimpleMatches"
         => \A pair \in ReturnedPairs(hybrid) :
              pair.matchConfidence = LexicalConfidence(pair.similarity)
    /\ hybrid.pc = "done" /\ hybrid.op = "vectorFindMatches"
         => \A pair \in ReturnedPairs(hybrid) :
              \/ pair.matchConfidence = LexicalConfidence(pair.similarity)
              \/ pair.matchConfidence = HybridConfidence(pair.similarity)

-----------------------------------------------------------------------------
(* The embedding model loader: initEmbedder of src/vector-matcher.js and   *)
(* src/unnamed/part_000, called by concurrent callers.  A load is the      *)
(* async block that imports the library and calls pipeline(...); loads are *)
(* numbered as they start, the instance a load creates and the error it    *)
(* rejects with carry its number, and 0 stands for null.  A call runs      *)
(* without a break up to its return; the awaits of the load and the        *)
(* continuation of a caller are steps of their own.                        *)

\* callers of initEmbedder in one process
MaxCallers == 3

CallerIds == 1..MaxCallers

\* a caller that has not called yet
NoCall == [pc |-> "idle", promise |-> 0, value |-> 0, late |-> FALSE]

\* a test that never returns the stored promise
ReturnStored_never(l) == FALSE

\* a test that returns the stored promise unless it was rejected
ReturnStored_unlessRejected(l) ==
    l.initPromise # 0 /\ l.loads[l.initPromise] # "rejected"

\* if (initPromise) return initPromise
ReturnStored(l) == l.initPromise # 0

\* a load has failed
Failed(l) == \E k \in 1..Len(l.loads) : l.loads[k] = "rejected"

\* initEmbedder() up to its return, called by c; `late` records that a load
\* had failed when the call was made
initEmbedder(l, c) ==
    IF l.embedder # 0
    THEN [l EXCEPT !.calls[c] = [pc |-> "returned", promise |-> 0,
                                 value |-> l.embedder, late |-> Failed(l)]]
    ELSE IF ReturnStored(l)
    THEN [l EXCEPT !.calls[c] = [pc |-> "awaiting", promise |-> l.initPromise,
                                 value |-> 0, late |-> Failed(l)]]
    ELSE [l EXCEPT !.loads = Append(@, "import"),
                   !.initPromise = Len(l.loads) + 1,
                   !.calls[c] = [pc |-> "awaiting",
                                 promise |-> Len(l.loads) + 1,
                                 value |-> 0, late |-> Failed(l)]]

EmbInit ==
    /\ loader = [pc |-> "on", embedder |-> 0, initPromise |-> 0,
                 loads |-> <<>>, calls |-> [c \in CallerIds |-> NoCall]]
    /\ ArbIdle
    /\ SimIdle
    /\ MatchIdle
    /\ HybIdle
    /\ DbIdle
    /\ ProbeIdle

\* a caller calls initEmbedder and awaits what it returns
EmbCall(c) ==
    /\ loader.calls[c].pc = "idle"
    /\ loader' = initEmbedder(loader, c)
    /\ UNCHANGED notEmb

\* await import('@xenova/transformers') settles: pipeline(...) is called, or
\* the block rejects
EmbImported(k) ==
    /\ loader.loads[k] = "import"
    /\ \E outcome \in {"pipeline", "rejected"} :
         loader' = [loader EXCEPT !.loads[k] = outcome]
    /\ UNCHANGED notEmb

\* embedder = await pipeline(...) settles: the instance is stored and the
\* block returns it, or the block rejects
EmbCreated(k) ==
    /\ loader.loads[k] = "pipeline"
    /\ \/ loader' = [loader EXCEPT !.loads[k] = "fulfilled", !.embedder = k]
       \/ loader' = [loader EXCEPT !.loads[k] = "rejected"]
    /\ UNCHANGED notEmb

\* the promise a caller awaits has settled: the caller goes on with the
\* instance, or with the error thrown at its await
EmbSettled(c) ==
    /\ loader.calls[c].pc = "awaiting"
    /\ loader.loads[loader.calls[c].promise] \in {"fulfilled", "rejected"}
    /\ loader' = [loader EXCEPT !.calls[c] =
          [pc |-> IF loader.loads[@.promise] = "fulfilled"
                  THEN "returned" ELSE "thrown",
           promise |-> @.promise,
           value |-> @.promise,
           late |-> @.late]]
    /\ UNCHANGED notEmb

EmbNext ==
    \/ \E c \in CallerIds : EmbCall(c)
    \/ \E k \in 1..Len(loader.loads) : EmbImported(k)
    \/ \E k \in 1..Len(loader.loads) : EmbCreated(k)
    \/ \E c \in CallerIds : EmbSettled(c)

SpecEmbedder == EmbInit /\ [][EmbNext]_vars

-----------------------------------------------------------------------------
(* Properties of the loader, checked under SpecEmbedder *)

\* the callers that have their answer
Answered == {c \in CallerIds : loader.calls[c].pc \in {"returned", "thrown"}}

\* C27: under any interleaving of concurrent initEmbedder callers, the model
\* pipeline is loaded at most once and every caller receives the same
\* embedder instance.
C27_LoadedOnceSameInstance ==
    /\ Len(loader.loads) <= 1
    /\ \A c, d \in Answered :
         loader.calls[c].pc = "returned" /\ loader.calls[d].pc = "returned"
         => loader.calls[c].value = loader.calls[d].value

\* C27 witness: two callers awaited the one load together and the third
\* called when the instance was stored; all three hold the same instance
C27_Witness ==
    /\ Len(loader.loads) = 1
    /\ \A c \in CallerIds : loader.calls[c].pc = "returned"
    /\ loader.calls[1].promise = 1
    /\ loader.calls[2].promise = 1
    /\ loader.calls[3].promise = 0
    /\ loader.calls[3].value = loader.calls[1].value

\* C28: once the model load started by initEmbedder has failed, every later
\* initEmbedder call in the same process fails with that same error and the
\* load is never attempted again (the stored promise is never cleared).
C28_FailureIsPermanent ==
    Failed(loader)
    => /\ Len(loader.loads) = 1
       /\ loader.initPromise = 1
       /\ loader.embedder = 0
       /\ \A c \in CallerIds :
            /\ loader.calls[c].pc = "awaiting" => loader.calls[c].promise = 1
            /\ loader.calls[c].pc # "returned"
            /\ loader.calls[c].pc = "thrown" => loader.calls[c].value = 1

\* C28 witness: a caller that called after the load had failed got the
\* error of that load
C28_Witness ==
    \E c \in CallerIds :
        /\ loader.calls[c].late
        /\ loader.calls[c].pc = "thrown"
        /\ loader.calls[c].value = 1
        /\ Len(loader.loads) = 1

-----------------------------------------------------------------------------
(* Properties of the system routes, checked under SpecSystem *)

\* handler h passes from its fetches to indexKalshi
StartsIndexing(h) ==
    /\ refresh[h].pc = "fetching"
    /\ refresh'[h].pc = "list"
    /\ refresh'[h].venue = "kalshi"

\* handler h passes from indexPolymarket to the await of its closing lines
EndsIndexing(h) == refresh[h].pc = "finish" /\ refresh'[h].pc = "stats"

\* the step writes the metadata: a later lastUpdate and the lengths of the
\* two lists of the handler
Written(rf) ==
    dbMeta' = [lastUpdate |-> getDbStats(dbMeta).lastUpdate + 1,
               kalshiCount |-> Len(rf.kalshiMarkets),
               polymarketCount |-> Len(rf.polyMarkets)]

\* a handler writes the metadata when both fetches are done and its
\* indexKalshi has not started, and again when its indexing is over; the
\* metadata is written at no other step
WritesAroundIndexing ==
    /\ dbMeta' # dbMeta
        => \E h \in Handlers : StartsIndexing(h) \/ EndsIndexing(h)
    /\ \A h \in Handlers :
           /\ StartsIndexing(h) => Written(refresh'[h])
           /\ EndsIndexing(h) => Written(refresh[h])

\* what the two routes would answer, and what the last answer was, while
\* a rebuild is under way
PopulatedWhileRebuilding ==
    /\ (\E h \in Handlers : refresh[h].pc \in Rebuilding)
         => /\ getDbStats(dbMeta).lastUpdate # 0
            /\ databaseOf(getDbStats(dbMeta)) = "populated"
    /\ probe # <<>> /\ probe[1].at.rebuilding
         => /\ probe[1].dbStats.lastUpdate # 0
            /\ probe[1].route = "health" => probe[1].database = "populated"

\* C30: in the POST /api/system/refresh handler the metadata (lastUpdate and
\* counts) is written after both fetches complete and before either index is
\* cleared, and again after indexing; so from the first write on,
\* /api/system/stats and /api/system/health report a non-null lastUpdate
\* ('populated') at every step of the rebuild, including while an index is
\* empty.
C30_PopulatedFromFirstWrite ==
    []PopulatedWhileRebuilding /\ [][WritesAroundIndexing]_vars

\* C30 witness: on a fresh install, /health answered 'populated' from the
\* first write of the metadata while the Kalshi index was empty and being
\* rebuilt
C30_Witness ==
    /\ probe # <<>>
    /\ probe[1].route = "health"
    /\ probe[1].database = "populated"
    /\ probe[1].dbStats.lastUpdate = 1
    /\ probe[1].at.emptied
    /\ \E h \in Handlers :
         refresh[h].pc = "responded" /\ refresh[h].status = 200
    /\ dbMeta.lastUpdate >= 2
    /\ dbMeta.kalshiCount >= 1

====
